---- MODULE Spec2Model ----
(***************************************************************************)
(* Storage-and-integrity subsystem of the server:                          *)
(*   - VFS.writeFile / VFS.writeFileAsync on one path (utils/VFS.ts),      *)
(*   - DatabaseImporter hash-manifest validation (utils/DatabaseImporter), *)
(*   - BundleLoader registry over the bundle hash cache (loaders/).        *)
(* Each part has its own specification (SpecVFS, SpecImporter,             *)
(* SpecBundles); the variables of the other parts stay at their initial    *)
(* value.                                                                  *)
(***************************************************************************)
EXTENDS Integers, Sequences, FiniteSets, TLC

VARIABLES
    \* ---- VFS: one file path, its lock, the in-flight write calls ----
    fileExists,   \* the path exists on disk
    parentDir,    \* the parent directory of the path exists
    content,      \* bytes of the file, as a sequence of chunks
    lockHolder,   \* writer holding the proper-lockfile lock of the path, 0 = free
    pc,           \* position of each write call
    data,         \* data argument of the call
    append,       \* append argument of the call
    atomic,       \* atomic argument of the call
    written,      \* chunks of data the call has written so far
    err,          \* the write inside try{} threw
    result,       \* how the last call of the writer settled
    calls,        \* write calls started so far, by all callers
    acquired,     \* lockFileSync calls of the writer's last call that returned a release function
    released,     \* release() calls of the writer's last call
    submitted,    \* payloads passed to the write calls so far
    observed,     \* what the last readFile of the path returned
    onlyAtomic,   \* every write call so far had atomic = true and append = false
    ioFailed,     \* some write so far threw an IO error
    \* ---- VFS: the other asynchronous operations, on the files next to the path ----
    op,           \* the copyAsync / getFilesAsync / getDirsAsync call in flight
    items,        \* what readdir returned to the listing call in flight
    opResult,     \* how the last of these calls settled
    others,       \* the other files of the directory: name -> <<>> (absent) or <<bytes>>
    lastAccess,   \* the last filesystem access an asynchronous method made
    \* ---- VFS: the written path and the history of the write calls ----
    filepath,     \* the filepath argument of the write calls, as its segments and "/"
    started,      \* per writer, what its call in flight found when it started
    lastDone,     \* the write call that settled in the step just taken
    \* ---- VFS: the recursive operations on a directory tree ----
    fsTree,       \* the filesystem: path -> directory or file with its bytes
    fsTree0,      \* the filesystem when the call in flight (or the last call) started
    treeCall,     \* the recursive operation called last, with its arguments
    tasks,        \* per directory of the source, the asynchronous invocation working on it
    settled,      \* how the call settled: "" in flight, "ok", or the error code
    lastOp,       \* the node:fs call made in the step just taken
    trace,        \* the node:fs calls the last synchronous operation made, in order
    \* ---- VFS: the extension helpers ----
    fname,        \* the string passed to getFileExtension / stripExtension
    extOut,       \* <<what getFileExtension returned>>, <<>> before the call
    stripOut,     \* <<what stripExtension returned>>, <<>> before the call
    \* ---- DatabaseImporter ----
    phase,             \* position of onLoad
    releaseConfig,     \* globalThis.G_RELEASE_CONFIGURATION (verified mode)
    checksFile,        \* checks.dat on disk: absent, corrupt, or an encoded hash tree
    hashedFile,        \* this.hashedFile
    validationStatus,  \* this.validationStatus
    hooked,            \* the last validateFile call: file, outcome, result
    seen,              \* files the loader has handed to onReadValidate
    tablesSet,         \* databaseServer.setTables was called
    imagesLoaded,      \* loadImagesFromDirectories has registered the routes
    files,             \* the content files under database/: path -> data
    pending,           \* files the loader has not handed to the hook yet
    failure,           \* the external call that made onLoad reject, "" = none
    \* ---- BundleLoader and the bundle hash cache ----
    heap,          \* the objects: BundleInfo instances and their dependencies arrays
    bundles,       \* this.bundles: key -> address of the stored BundleInfo, 0 = no entry
    bundleHashes,  \* the hash cache: bundle path -> stored hash, 0 = no entry
    bundleFiles,   \* bytes of each bundle file on disk, 0 = the file is missing
    returned,      \* addresses of the values getBundle/getBundles returned to callers
    lastHashed,    \* per path, what the last two addBundles calls that registered it saw
    lastGet,       \* how the getBundle call of the step just taken settled
    direct,        \* keys whose entry was inserted by a direct addBundle call
    inserted,      \* per key, the BundleInfo value passed to the last addBundle for it
    \* ---- DatabaseImporter.loadImagesFromDirectories ----
    imageDirs,                \* the subdirectories of the images root, in listing order
    imageFiles,               \* the files of each of them, in listing order
    serverImagePathOverride,  \* httpConfig.serverImagePathOverride: literal path -> override
    routes,                   \* the addRoute calls made on the image router, in order
    imagePc,                  \* position of loadImagesFromDirectories
    imageIndex,               \* index of the next subdirectory whose callback runs
    \* ---- VFS.existsAsync as a promise chain ----
    probe,                    \* the existsAsync call in flight
    probeLog                  \* the existsAsync calls that settled, in order

diskVars == <<fileExists, parentDir, content>>
argVars == <<data, append, atomic>>
lockLog == <<acquired, released>>
callLog == <<calls, submitted, onlyAtomic>>
ioLog == <<ioFailed>>
vfsVars == <<diskVars, lockHolder, pc, argVars, written, err, result, lockLog, callLog,
             ioLog, observed>>

writeEnv == <<filepath, started, lastDone>>

asyncVars == <<op, items, opResult, others, lastAccess>>

treeVars == <<fsTree, fsTree0, treeCall, tasks, settled, lastOp, trace>>

helperVars == <<fname, extOut, stripOut>>

importerVars == <<phase, releaseConfig, checksFile, hashedFile, validationStatus,
                  hooked, seen, tablesSet, imagesLoaded, files, pending, failure>>

bundleVars == <<heap, bundles, bundleHashes, bundleFiles, returned, lastHashed,
                lastGet, direct, inserted>>

imageVars == <<imageDirs, imageFiles, serverImagePathOverride, routes, imagePc, imageIndex>>

probeVars == <<probe, probeLog>>

vars == <<vfsVars, writeEnv, asyncVars, treeVars, helperVars, importerVars, bundleVars,
          imageVars, probeVars>>

\* ------------------------------------------------------------------------
\* Bounds
\* ------------------------------------------------------------------------
NumWriters == 2      \* concurrent callers of writeFile / writeFileAsync
MaxCalls == 2        \* write calls in one run
PayloadLen == 2      \* chunks per payload
NumPayloads == 2     \* distinct payloads
MaxFiles == 2        \* files the loader hands to the validation hook in one run
NumBytes == 2        \* distinct contents of a bundle file
MaxReturned == 1     \* values returned by getBundle/getBundles the callers still hold
MaxNameLen == 4      \* characters of a file name given to the extension helpers
MaxDirs == 8         \* subdirectories under the images root
MaxProbes == 2       \* existsAsync calls of one run

Writers == 1..NumWriters

\* a payload is PayloadLen chunks carrying the payload's number
Payloads == { [i \in 1..PayloadLen |-> v] : v \in 1..NumPayloads }

\* content of the file when it exists before the first call
OldContent == [i \in 1..PayloadLen |-> NumPayloads + 1]

Max(a, b) == IF a >= b THEN a ELSE b

\* ------------------------------------------------------------------------
\* node:fs primitives on the path
\* ------------------------------------------------------------------------

\* write(fd, chunk, position): a write past the end leaves a zero-filled hole
WriteAt(bytes, pos, c) ==
    [i \in 1..Max(Len(bytes), pos) |->
        IF i = pos THEN c ELSE IF i <= Len(bytes) THEN bytes[i] ELSE 0]

\* every write truncates, append or not
OpenFlagIgnoresAppend(app, atm) == "w"

\* flag the call opens the file with: both branches of the write pass
\* options only when append or not atomic, and fs.writeFile defaults to "w"
OpenFlag(app, atm) ==
    IF ~app /\ atm THEN "w" ELSE IF app THEN "a" ELSE "w"

\* fs.writeFileSync(filepath, data, options) that runs to completion
WriteWhole(bytes, d, flag) == IF flag = "a" THEN bytes \o d ELSE d

\* fs.writeFileSync(filepath, data, options) that throws after k chunks
WritePartial(bytes, d, flag, k) ==
    IF flag = "a" THEN bytes \o SubSeq(d, 1, k) ELSE SubSeq(d, 1, k)

\* String.prototype.lastIndexOf("/"), counted from 0; -1 when there is none
LastIndexOfSlash(str) ==
    IF \E i \in 1..Len(str) : str[i] = "/"
    THEN (CHOOSE i \in 1..Len(str) :
            /\ str[i] = "/"
            /\ \A j \in (i + 1)..Len(str) : str[j] # "/") - 1
    ELSE -1

\* String.prototype.substr(0, length): "" when length is not positive
Substr0(str, length) == IF length <= 0 THEN <<>> ELSE SubSeq(str, 1, length)

\* the directory createDir hands to mkdir: filepath.substr(0, filepath.lastIndexOf("/"))
createDirTarget(path) == Substr0(path, LastIndexOfSlash(path))

\* fs.mkdirSync(dir, { recursive: true }) / fs.mkdir: ENOENT on the empty path
mkdirThrows(dir) == dir = <<>>

\* the paths written to: in the working directory, and in a directory below it
WritePaths == { <<"f">>, <<"d", "/", "f">> }
DefaultPath == <<"d", "/", "f">>

NoCall == [existed |-> FALSE, parentExisted |-> FALSE, before |-> <<>>, d |-> <<>>,
           app |-> FALSE, atm |-> TRUE, alone |-> FALSE]
NoDone == [w |-> 0, call |-> NoCall, outcome |-> "none"]

InitCalls ==
    /\ lockHolder = 0
    /\ pc = [w \in Writers |-> "idle"]
    /\ data = [w \in Writers |-> <<>>]
    /\ append = [w \in Writers |-> FALSE]
    /\ atomic = [w \in Writers |-> TRUE]
    /\ written = [w \in Writers |-> 0]
    /\ err = [w \in Writers |-> FALSE]
    /\ result = [w \in Writers |-> "none"]
    /\ calls = 0
    /\ submitted = {}
    /\ acquired = [w \in Writers |-> 0]
    /\ released = [w \in Writers |-> 0]
    /\ observed = [status |-> "none", bytes |-> <<>>]
    /\ onlyAtomic = TRUE
    /\ ioFailed = FALSE

InitVFS ==
    /\ fileExists \in BOOLEAN
    /\ parentDir = fileExists
    /\ content = IF fileExists THEN OldContent ELSE <<>>
    /\ InitCalls

\* a caller starts a write call: the call's arguments enter the run's log
StartCall(w, d, app, atm) ==
    /\ pc[w] = "idle"
    /\ calls < MaxCalls
    /\ calls' = calls + 1
    /\ submitted' = submitted \cup {d}
    /\ onlyAtomic' = (onlyAtomic /\ atm /\ ~app)

\* the call returns or throws: its locals go out of scope
EndCall(w, outcome) ==
    /\ pc' = [pc EXCEPT ![w] = "idle"]
    /\ result' = [result EXCEPT ![w] = outcome]
    /\ data' = [data EXCEPT ![w] = <<>>]
    /\ append' = [append EXCEPT ![w] = FALSE]
    /\ atomic' = [atomic EXCEPT ![w] = TRUE]
    /\ written' = [written EXCEPT ![w] = 0]
    /\ err' = [err EXCEPT ![w] = FALSE]

\* ------------------------------------------------------------------------
\* VFS.writeFile: synchronous, the whole call is one step of the process
\* ------------------------------------------------------------------------

\* proper-lockfile lockSync: returns when the lock is free, throws ELOCKED when held
lockFileSync(holder) == holder = 0

\* release() only after a write that did not throw (no finally)
ReleasesOnSuccessOnly(threw) == IF threw THEN 0 ELSE 1

\* release() calls made when the try block is left (finally)
ReleasesOnExit(threw) == 1

writeFile(w, d, app, atm, fails, k) ==
    /\ StartCall(w, d, app, atm)
    /\ LET created == IF fileExists THEN content ELSE <<>>
       IN  IF ~fileExists /\ mkdirThrows(createDirTarget(filepath))
           THEN /\ result' = [result EXCEPT ![w] = "ENOENT"]
                /\ acquired' = [acquired EXCEPT ![w] = 0]
                /\ released' = [released EXCEPT ![w] = 0]
                /\ UNCHANGED <<diskVars, lockHolder, ioFailed>>
           ELSE IF ~lockFileSync(lockHolder)
           THEN /\ fileExists' = TRUE
                /\ parentDir' = TRUE
                /\ content' = created
                /\ result' = [result EXCEPT ![w] = "ELOCKED"]
                /\ acquired' = [acquired EXCEPT ![w] = 0]
                /\ released' = [released EXCEPT ![w] = 0]
                /\ UNCHANGED <<lockHolder, ioFailed>>
           ELSE /\ fileExists' = TRUE
                /\ parentDir' = TRUE
                /\ acquired' = [acquired EXCEPT ![w] = 1]
                /\ ioFailed' = (ioFailed \/ fails)
                /\ released' = [released EXCEPT ![w] = ReleasesOnExit(fails)]
                /\ lockHolder' = IF ReleasesOnExit(fails) > 0 THEN 0 ELSE w
                /\ IF fails
                   THEN /\ content' = IF ~app /\ atm THEN created
                                      ELSE WritePartial(created, d, OpenFlag(app, atm), k)
                        /\ result' = [result EXCEPT ![w] = "EIO"]
                   ELSE /\ content' = WriteWhole(created, d, OpenFlag(app, atm))
                        /\ result' = [result EXCEPT ![w] = "ok"]
    /\ UNCHANGED <<pc, argVars, written, err, observed>>

\* ------------------------------------------------------------------------
\* VFS.writeFileAsync: one step per await
\* ------------------------------------------------------------------------

writeFileAsync(w, d, app, atm) ==
    /\ StartCall(w, d, app, atm)
    /\ pc' = [pc EXCEPT ![w] = "exists"]
    /\ data' = [data EXCEPT ![w] = d]
    /\ append' = [append EXCEPT ![w] = app]
    /\ atomic' = [atomic EXCEPT ![w] = atm]
    /\ result' = [result EXCEPT ![w] = "none"]
    /\ acquired' = [acquired EXCEPT ![w] = 0]
    /\ released' = [released EXCEPT ![w] = 0]
    /\ UNCHANGED <<diskVars, lockHolder, written, err, ioLog, observed>>

\* await this.existsAsync(filepath)
existsAsync(w) ==
    /\ pc[w] = "exists"
    /\ pc' = [pc EXCEPT ![w] = IF fileExists THEN "lock" ELSE "mkdir"]
    /\ UNCHANGED <<diskVars, lockHolder, argVars, written, err, result, lockLog, callLog,
                   ioLog, observed>>

\* await this.createDirAsync(filepath)
createDirAsync(w) ==
    /\ pc[w] = "mkdir"
    /\ IF mkdirThrows(createDirTarget(filepath))
       THEN /\ EndCall(w, "ENOENT")
            /\ UNCHANGED parentDir
       ELSE /\ parentDir' = TRUE
            /\ pc' = [pc EXCEPT ![w] = "create"]
            /\ UNCHANGED <<argVars, written, err, result>>
    /\ UNCHANGED <<fileExists, content, lockHolder, lockLog, callLog, ioLog, observed>>

\* await this.writeFilePromisify(filepath, ""): open with "w" creates or truncates
createEmptyAsync(w) ==
    /\ pc[w] = "create"
    /\ fileExists' = TRUE
    /\ content' = <<>>
    /\ pc' = [pc EXCEPT ![w] = "lock"]
    /\ UNCHANGED <<parentDir, lockHolder, argVars, written, err, result, lockLog, callLog,
                   ioLog, observed>>

\* const release = this.lockFileSync(filepath): outside try, so ELOCKED leaves the call
lockAsync(w) ==
    /\ pc[w] = "lock"
    /\ IF lockFileSync(lockHolder)
       THEN /\ lockHolder' = w
            /\ acquired' = [acquired EXCEPT ![w] = @ + 1]
            /\ pc' = [pc EXCEPT ![w] = "open"]
            /\ UNCHANGED <<argVars, written, err, result>>
       ELSE /\ EndCall(w, "ELOCKED")
            /\ UNCHANGED <<lockHolder, acquired>>
    /\ UNCHANGED <<diskVars, released, callLog, ioLog, observed>>

\* fs.writeFile opens the file: flag "w" truncates, flag "a" does not
openAsync(w) ==
    /\ pc[w] = "open"
    /\ content' = IF OpenFlag(append[w], atomic[w]) = "w" THEN <<>> ELSE content
    /\ pc' = [pc EXCEPT ![w] = "write"]
    /\ UNCHANGED <<fileExists, parentDir, lockHolder, argVars, written, err, result,
                   lockLog, callLog, ioLog, observed>>

\* fs.writeFile writes the next chunk at its own file position
writeChunkAsync(w) ==
    /\ pc[w] = "write"
    /\ written[w] < Len(data[w])
    /\ content' = IF OpenFlag(append[w], atomic[w]) = "w"
                  THEN WriteAt(content, written[w] + 1, data[w][written[w] + 1])
                  ELSE Append(content, data[w][written[w] + 1])
    /\ written' = [written EXCEPT ![w] = @ + 1]
    /\ UNCHANGED <<fileExists, parentDir, lockHolder, pc, argVars, err, result, lockLog,
                   callLog, ioLog, observed>>

\* the write promise resolves after the last chunk
writeDoneAsync(w) ==
    /\ pc[w] = "write"
    /\ written[w] = Len(data[w])
    /\ pc' = [pc EXCEPT ![w] = "finally"]
    /\ UNCHANGED <<diskVars, lockHolder, argVars, written, err, result, lockLog, callLog,
                   ioLog, observed>>

\* the write promise rejects (IO error) at any point of the write
writeRejectAsync(w) ==
    /\ pc[w] \in {"open", "write"}
    /\ err' = [err EXCEPT ![w] = TRUE]
    /\ ioFailed' = TRUE
    /\ pc' = [pc EXCEPT ![w] = "finally"]
    /\ UNCHANGED <<diskVars, lockHolder, argVars, written, result, lockLog, callLog,
                   observed>>

\* finally { release(); } then the call resolves or rethrows
finallyRelease(w) ==
    /\ pc[w] = "finally"
    /\ released' = [released EXCEPT ![w] = @ + ReleasesOnExit(err[w])]
    /\ lockHolder' = IF ReleasesOnExit(err[w]) > 0 THEN 0 ELSE lockHolder
    /\ EndCall(w, IF err[w] THEN "EIO" ELSE "ok")
    /\ UNCHANGED <<diskVars, acquired, callLog, ioLog, observed>>

\* VFS.readFile by a concurrent reader of the path
readFile ==
    /\ observed' = IF fileExists THEN [status |-> "ok", bytes |-> content]
                   ELSE [status |-> "ENOENT", bytes |-> <<>>]
    /\ UNCHANGED <<diskVars, lockHolder, pc, argVars, written, err, result, lockLog,
                   callLog, ioLog>>

\* the write calls as each caller sees them: what a call found, how it settled
InitWrite ==
    /\ filepath \in WritePaths
    /\ fileExists \in BOOLEAN
    /\ parentDir \in BOOLEAN
    /\ fileExists => parentDir
    /\ LastIndexOfSlash(filepath) = -1 => parentDir
    /\ content = IF fileExists THEN OldContent ELSE <<>>
    /\ InitCalls
    /\ started = [w \in Writers |-> NoCall]
    /\ lastDone = NoDone

\* the path is fixed and the history is not kept
WriteEnvOff ==
    /\ filepath = DefaultPath
    /\ started = [w \in Writers |-> NoCall]
    /\ lastDone = NoDone

\* the record of a call of w that starts now; a call in flight is no longer alone
Begin(w, d, app, atm) ==
    [x \in Writers |->
        IF x = w
        THEN [existed |-> fileExists, parentExisted |-> parentDir, before |-> content,
              d |-> d, app |-> app, atm |-> atm,
              alone |-> \A y \in Writers : pc[y] = "idle"]
        ELSE [started[x] EXCEPT !.alone = FALSE]]

\* writeFile returns or throws in the step it is called
TrackSync(w, d, app, atm) ==
    /\ started' = [Begin(w, d, app, atm) EXCEPT ![w] = NoCall]
    /\ lastDone' = [w |-> w, call |-> Begin(w, d, app, atm)[w], outcome |-> result'[w]]
    /\ UNCHANGED filepath

\* writeFileAsync is called
TrackStart(w, d, app, atm) ==
    /\ started' = Begin(w, d, app, atm)
    /\ lastDone' = NoDone
    /\ UNCHANGED filepath

\* a step of writeFileAsync: the promise settles when the call leaves its last await
TrackStep(w) ==
    /\ lastDone' = IF pc'[w] = "idle"
                   THEN [w |-> w, call |-> started[w], outcome |-> result'[w]]
                   ELSE NoDone
    /\ started' = IF pc'[w] = "idle" THEN [started EXCEPT ![w] = NoCall] ELSE started
    /\ UNCHANGED filepath

\* the write calls are never started
VFSOff ==
    /\ fileExists = FALSE /\ parentDir = FALSE /\ content = <<>> /\ lockHolder = 0
    /\ pc = [w \in Writers |-> "idle"]
    /\ data = [w \in Writers |-> <<>>]
    /\ append = [w \in Writers |-> FALSE]
    /\ atomic = [w \in Writers |-> TRUE]
    /\ written = [w \in Writers |-> 0]
    /\ err = [w \in Writers |-> FALSE]
    /\ result = [w \in Writers |-> "none"]
    /\ calls = 0 /\ submitted = {}
    /\ acquired = [w \in Writers |-> 0]
    /\ released = [w \in Writers |-> 0]
    /\ observed = [status |-> "none", bytes |-> <<>>]
    /\ onlyAtomic = TRUE /\ ioFailed = FALSE

\* ------------------------------------------------------------------------
\* VFS: the asynchronous operations and the command queue
\* ------------------------------------------------------------------------

\* the files next to the written path, in the same directory
OtherNames == {"b", "c"}

NoOp == [name |-> "none", pc |-> "idle", from |-> "", to |-> ""]
NoAccess == [method |-> "none", fn |-> "none", queued |-> TRUE]

\* a method of VFS calls a node:fs function: inside a command it handed to
\* queueCommand (queued), or directly
Access(method, fn, queued) ==
    lastAccess' = [method |-> method, fn |-> fn, queued |-> queued]

\* the names readdir finds in the directory
DirEntries == {x \in OtherNames : others[x] # <<>>} \cup (IF fileExists THEN {"a"} ELSE {})

\* one of the other asynchronous operations is called
StartOp ==
    /\ op = NoOp
    /\ calls < MaxCalls
    /\ calls' = calls + 1

writeCallVars == <<lockHolder, pc, argVars, written, err, result, lockLog, submitted,
                   onlyAtomic, ioLog, observed>>

InitAsync ==
    /\ op = NoOp /\ items = {} /\ opResult = "none"
    /\ others \in [OtherNames -> {<<>>, <<OldContent>>}]
    /\ lastAccess = NoAccess

\* none of these operations is ever called
AsyncOff ==
    /\ op = NoOp /\ items = {} /\ opResult = "none"
    /\ others = [x \in OtherNames |-> <<>>]
    /\ lastAccess = NoAccess

\* VFS.copyAsync(filepath, target): the copy is handed to queueCommand
copyAsync(to) ==
    /\ StartOp
    /\ op' = [name |-> "copyAsync", pc |-> "queued", from |-> "a", to |-> to]
    /\ UNCHANGED <<diskVars, writeCallVars, items, opResult, others, lastAccess>>

\* the queue runs the command of copyAsync: copyFilePromisify(filepath, target)
copyCommand ==
    /\ op.name = "copyAsync" /\ op.pc = "queued"
    /\ Access("copyAsync", "copyFile", TRUE)
    /\ IF fileExists /\ parentDir
       THEN /\ others' = [others EXCEPT ![op.to] = <<content>>]
            /\ opResult' = "ok"
       ELSE /\ opResult' = "ENOENT"
            /\ UNCHANGED others
    /\ op' = NoOp
    /\ UNCHANGED <<diskVars, writeCallVars, calls, items>>

\* VFS.readFileAsync(filepath): readFilePromisify is called directly
readFileAsync ==
    /\ StartOp
    /\ Access("readFileAsync", "readFile", FALSE)
    /\ opResult' = IF fileExists THEN "ok" ELSE "ENOENT"
    /\ UNCHANGED <<diskVars, writeCallVars, op, items, others>>

\* VFS.removeFileAsync(filepath): unlinkPromisify is called directly
removeFileAsync(x) ==
    /\ StartOp
    /\ Access("removeFileAsync", "unlink", FALSE)
    /\ IF others[x] # <<>>
       THEN /\ others' = [others EXCEPT ![x] = <<>>]
            /\ opResult' = "ok"
       ELSE /\ opResult' = "ENOENT"
            /\ UNCHANGED others
    /\ UNCHANGED <<diskVars, writeCallVars, op, items>>

\* VFS.renameAsync(oldPath, newPath): renamePromisify is called directly
renameAsync(x, y) ==
    /\ StartOp
    /\ x # y
    /\ Access("renameAsync", "rename", FALSE)
    /\ IF others[x] # <<>>
       THEN /\ others' = [others EXCEPT ![x] = <<>>, ![y] = others[x]]
            /\ opResult' = "ok"
       ELSE /\ opResult' = "ENOENT"
            /\ UNCHANGED others
    /\ UNCHANGED <<diskVars, writeCallVars, op, items>>

\* VFS.getFilesAsync / getDirsAsync(filepath): readdirPromisify is called directly
listAsync(method) ==
    /\ StartOp
    /\ Access(method, "readdir", FALSE)
    /\ IF parentDir
       THEN /\ items' = DirEntries
            /\ op' = [name |-> method, pc |-> "stat", from |-> "", to |-> ""]
            /\ UNCHANGED opResult
       ELSE /\ opResult' = "ENOENT"
            /\ UNCHANGED <<op, items>>
    /\ UNCHANGED <<diskVars, writeCallVars, others>>

getFilesAsync == listAsync("getFilesAsync")
getDirsAsync == listAsync("getDirsAsync")

\* Promise.all(items.map(item => statPromisify(join(filepath, item)))): direct
\* calls; an entry removed since the readdir makes the listing reject
statAll ==
    /\ op.pc = "stat"
    /\ IF items = {} THEN UNCHANGED lastAccess ELSE Access(op.name, "stat", FALSE)
    /\ opResult' = IF items \subseteq DirEntries THEN "ok" ELSE "ENOENT"
    /\ op' = NoOp
    /\ items' = {}
    /\ UNCHANGED <<diskVars, writeCallVars, calls, others>>

\* ------------------------------------------------------------------------
\* VFS: getFileExtension and stripExtension
\* ------------------------------------------------------------------------

Chars == {"a", "b", "."}

\* the strings the helpers are called with
Names == UNION { [1..n -> Chars] : n \in 0..MaxNameLen }

\* index of the first "." of str, 0 when there is none
IndexOfDot(str) ==
    IF \E i \in 1..Len(str) : str[i] = "."
    THEN CHOOSE i \in 1..Len(str) :
            /\ str[i] = "."
            /\ \A j \in 1..(i - 1) : str[j] # "."
    ELSE 0

\* String.prototype.split("."): the pieces between the separators, empty ones kept
RECURSIVE SplitDot(_)
SplitDot(str) ==
    IF IndexOfDot(str) = 0 THEN <<str>>
    ELSE <<SubSeq(str, 1, IndexOfDot(str) - 1)>>
            \o SplitDot(SubSeq(str, IndexOfDot(str) + 1, Len(str)))

\* Array.prototype.join("."): "" for an empty array
RECURSIVE JoinDot(_)
JoinDot(parts) ==
    IF Len(parts) = 0 THEN <<>>
    ELSE IF Len(parts) = 1 THEN parts[1]
    ELSE parts[1] \o <<".">> \o JoinDot(Tail(parts))

\* the piece after the first "." instead of the last
getFileExtensionAfterFirstDot(p) ==
    LET parts == SplitDot(p)
    IN  IF Len(parts) = 1 THEN parts[1] ELSE JoinDot(Tail(parts))

\* filepath.split(".").pop()
getFileExtension(p) ==
    LET parts == SplitDot(p)
    IN  parts[Len(parts)]

\* the piece before the first "." instead of all but the last
stripExtensionAtFirstDot(p) ==
    LET parts == SplitDot(p)
    IN  IF Len(parts) = 1 THEN <<>> ELSE parts[1]

\* filepath.split(".").slice(0, -1).join(".")
stripExtension(p) ==
    LET parts == SplitDot(p)
    IN  JoinDot(SubSeq(parts, 1, Len(parts) - 1))

InitHelpers ==
    /\ fname \in Names
    /\ extOut = <<>>
    /\ stripOut = <<>>

\* the helpers are never called
HelpersOff ==
    /\ fname = <<>> /\ extOut = <<>> /\ stripOut = <<>>

\* a caller asks for the extension of the name
callGetFileExtension ==
    /\ extOut' = <<getFileExtension(fname)>>
    /\ UNCHANGED <<fname, stripOut>>

\* a caller asks for the name without its extension
callStripExtension ==
    /\ stripOut' = <<stripExtension(fname)>>
    /\ UNCHANGED <<fname, extOut>>

\* ------------------------------------------------------------------------
\* VFS: a directory tree and the node:fs calls on it
\* ------------------------------------------------------------------------

\* names of directory entries, as their characters
DirS == <<"s">>
JsonFile == <<"x", ".", "j", "s", "o", "n">>
TxtFile == <<"y", ".", "t", "x", "t">>
FileNames == {JsonFile, TxtFile}
JsonChars == <<"j", "s", "o", "n">>
TxtChars == <<"t", "x", "t">>

\* the order readdir lists the entries in
NameOrder == <<<<"a">>, <<"b">>, <<"p">>, DirS, JsonFile, TxtFile, JsonChars>>

\* a path is the sequence of its names; <<>> is the working directory
PathA == <<<<"a">>>>

\* a node: a directory, or a file with its bytes; an immutable file (ro) can be
\* neither unlinked nor written
DirNode == [kind |-> "dir", bytes |-> 0, ro |-> FALSE]
FileNode(b) == [kind |-> "file", bytes |-> b, ro |-> FALSE]

Exists(t, p) == p = <<>> \/ p \in DOMAIN t
IsDir(t, p) == p = <<>> \/ (p \in DOMAIN t /\ t[p].kind = "dir")
IsFile(t, p) == p \in DOMAIN t /\ t[p].kind = "file"
Parent(p) == SubSeq(p, 1, Len(p) - 1)
Beneath(t, p) == { q \in DOMAIN t : Len(q) > Len(p) /\ SubSeq(q, 1, Len(p)) = p }
Entries(t, p) == { q[Len(q)] : q \in { r \in Beneath(t, p) : Len(r) = Len(p) + 1 } }
Put(t, p, node) == [q \in DOMAIN t \cup {p} |-> IF q = p THEN node ELSE t[q]]
Drop(t, p) == [q \in DOMAIN t \ {p} |-> t[q]]
Join(p, name) == p \o <<name>>

\* path.join(target, "") + "/": the path with an empty last name
TrailingSlash(p) == Join(p, <<>>)

FsOk(t) == [tree |-> t, err |-> ""]
FsErr(t, code) == [tree |-> t, err |-> code]

\* fs.mkdir(p, { recursive: true }): creates every missing directory of p
RECURSIVE MkdirFrom(_, _, _)
MkdirFrom(t, p, i) ==
    IF i > Len(p) THEN FsOk(t)
    ELSE LET q == SubSeq(p, 1, i)
         IN  IF IsFile(t, q)
             THEN FsErr(t, IF i = Len(p) THEN "EEXIST" ELSE "ENOTDIR")
             ELSE MkdirFrom(IF q \in DOMAIN t THEN t ELSE Put(t, q, DirNode), p, i + 1)

mkdir(t, p) == IF mkdirThrows(p) THEN FsErr(t, "ENOENT") ELSE MkdirFrom(t, p, 1)

\* fs.copyFile(src, dst): overwrites an existing file
copyFileFs(t, src, dst) ==
    IF ~Exists(t, src) THEN FsErr(t, "ENOENT")
    ELSE IF IsDir(t, src) THEN FsErr(t, "EISDIR")
    ELSE IF ~Exists(t, Parent(dst)) THEN FsErr(t, "ENOENT")
    ELSE IF ~IsDir(t, Parent(dst)) THEN FsErr(t, "ENOTDIR")
    ELSE IF IsDir(t, dst) THEN FsErr(t, "EISDIR")
    ELSE IF IsFile(t, dst) /\ t[dst].ro THEN FsErr(t, "EPERM")
    ELSE FsOk(Put(t, dst, FileNode(t[src].bytes)))

\* fs.unlink(p)
unlink(t, p) ==
    IF ~Exists(t, p) THEN FsErr(t, "ENOENT")
    ELSE IF IsDir(t, p) THEN FsErr(t, "EISDIR")
    ELSE IF t[p].ro THEN FsErr(t, "EPERM")
    ELSE FsOk(Drop(t, p))

\* fs.rmdir(p): only an empty directory goes
rmdir(t, p) ==
    IF ~Exists(t, p) THEN FsErr(t, "ENOENT")
    ELSE IF ~IsDir(t, p) THEN FsErr(t, "ENOTDIR")
    ELSE IF Beneath(t, p) # {} THEN FsErr(t, "ENOTEMPTY")
    ELSE FsOk(Drop(t, p))

\* the error of fs.readdir(p), "" when it lists
readdirErr(t, p) ==
    IF ~Exists(t, p) THEN "ENOENT" ELSE IF ~IsDir(t, p) THEN "ENOTDIR" ELSE ""

IsFileName(t, p, n) == n \in Entries(t, p) /\ IsFile(t, Join(p, n))
IsDirName(t, p, n) == n \in Entries(t, p) /\ IsDir(t, Join(p, n))

\* VFS.getFiles / getFilesAsync and getDirs / getDirsAsync of a directory that lists
getFiles(t, p) == SelectSeq(NameOrder, LAMBDA n : IsFileName(t, p, n))
getDirs(t, p) == SelectSeq(NameOrder, LAMBDA n : IsDirName(t, p, n))

Range(xs) == { xs[i] : i \in 1..Len(xs) }

\* ------------------------------------------------------------------------
\* VFS: the synchronous recursive operations, as the node:fs calls they make
\* ------------------------------------------------------------------------

\* a synchronous run: the filesystem, the error thrown ("" = none), the calls made
Run(t) == [tree |-> t, err |-> "", trace |-> <<>>]
Thrown(st, code, o) == [tree |-> st.tree, err |-> code, trace |-> Append(st.trace, o)]
Made(st, res, o) == [tree |-> res.tree, err |-> res.err, trace |-> Append(st.trace, o)]

Op(fn, p, to) == [fn |-> fn, path |-> p, to |-> to]
NoOpMade == Op("none", <<>>, <<>>)

\* VFS.removeFile
removeFile(st, p) ==
    IF st.err # "" THEN st ELSE Made(st, unlink(st.tree, p), Op("unlink", p, <<>>))

\* rmdir before the children are removed
RECURSIVE removeDirParentFirst(_, _)
removeDirParentFirst(st, p) ==
    IF st.err # "" THEN st
    ELSE IF readdirErr(st.tree, p) # ""
    THEN Thrown(st, readdirErr(st.tree, p), Op("readdir", p, <<>>))
    ELSE LET fileList == getFiles(st.tree, p)
             dirList == getDirs(st.tree, p)
             RECURSIVE EachDir(_, _)
             EachDir(s1, i) ==
                 IF i > Len(dirList) THEN s1
                 ELSE EachDir(removeDirParentFirst(s1, Join(p, dirList[i])), i + 1)
             RECURSIVE EachFile(_, _)
             EachFile(s2, i) ==
                 IF i > Len(fileList) THEN s2
                 ELSE EachFile(removeFile(s2, Join(p, fileList[i])), i + 1)
             first == Made(st, rmdir(st.tree, p), Op("rmdir", p, <<>>))
         IN  EachFile(EachDir(first, 1), 1)

\* VFS.removeDir
RECURSIVE removeDir(_, _)
removeDir(st, p) ==
    IF st.err # "" THEN st
    ELSE IF readdirErr(st.tree, p) # ""
    THEN Thrown(st, readdirErr(st.tree, p), Op("readdir", p, <<>>))
    ELSE LET fileList == getFiles(st.tree, p)
             dirList == getDirs(st.tree, p)
             RECURSIVE EachDir(_, _)
             EachDir(s1, i) ==
                 IF i > Len(dirList) THEN s1
                 ELSE EachDir(removeDir(s1, Join(p, dirList[i])), i + 1)
             RECURSIVE EachFile(_, _)
             EachFile(s2, i) ==
                 IF i > Len(fileList) THEN s2
                 ELSE EachFile(removeFile(s2, Join(p, fileList[i])), i + 1)
             last == EachFile(EachDir(st, 1), 1)
         IN  IF last.err # "" THEN last
             ELSE Made(last, rmdir(last.tree, p), Op("rmdir", p, <<>>))

\* ------------------------------------------------------------------------
\* VFS: the asynchronous recursive operations, one invocation per directory
\* ------------------------------------------------------------------------

NoList == [given |-> FALSE, isArray |-> FALSE, exts |-> {}]
NoPrev == [name |-> "none", src |-> <<>>, dst |-> <<>>, before |-> <<>>, after |-> <<>>,
           settled |-> ""]
NoTreeCall == [name |-> "none", src |-> <<>>, dst |-> <<>>, list |-> NoList, n |-> 0,
               prev |-> NoPrev]

\* an invocation: where it is, the file operations it still awaits, the
\* subdirectories it recursed into, the first leaf error, the error it rejected with
IdleTask == [pc |-> "idle", pend |-> {}, subs |-> {}, leafErr |-> "", err |-> ""]
NoTasks == <<>>

Src(r) == treeCall.src \o r
Dst(r) == treeCall.dst \o r

\* nothing of the last call is still running
Quiescent ==
    /\ settled # ""
    /\ \A r \in DOMAIN tasks : tasks[r].pc \in {"done", "failed"} /\ tasks[r].pend = {}

\* the first operation of a run, or one that follows a copy that succeeded and
\* has wound up
CanCall ==
    \/ treeCall.name = "none"
    \/ /\ treeCall.n = 1
       /\ treeCall.name \in {"copyDir", "copyDirAsync", "minifyAllJsonInDirRecursive",
                              "minifyAllJsonInDirRecursiveAsync"}
       /\ Quiescent
       /\ settled = "ok"

NewCall(name, src, dst, list) ==
    [name |-> name, src |-> src, dst |-> dst, list |-> list, n |-> treeCall.n + 1,
     prev |-> [name |-> treeCall.name, src |-> treeCall.src, dst |-> treeCall.dst,
               before |-> fsTree0, after |-> fsTree, settled |-> settled]]

\* a synchronous operation runs to its end in one step of the process
SyncCall(name, src, dst, list, st) ==
    /\ CanCall
    /\ treeCall' = NewCall(name, src, dst, list)
    /\ fsTree0' = fsTree
    /\ fsTree' = st.tree
    /\ settled' = IF st.err = "" THEN "ok" ELSE st.err
    /\ trace' = st.trace
    /\ tasks' = NoTasks
    /\ lastOp' = NoOpMade

\* an asynchronous operation is called: its invocation on the source begins
AsyncCall(name, src, dst, list) ==
    /\ CanCall
    /\ treeCall' = NewCall(name, src, dst, list)
    /\ fsTree0' = fsTree
    /\ tasks' = [r \in {<<>>} |-> [IdleTask EXCEPT !.pc = "list"]]
    /\ settled' = ""
    /\ trace' = <<>>
    /\ lastOp' = NoOpMade
    /\ UNCHANGED fsTree

\* the promise of the call settles with the invocation on the source
SettledWith(ts) ==
    IF ts[<<>>].pc = "done" THEN "ok"
    ELSE IF ts[<<>>].pc = "failed" THEN ts[<<>>].err
    ELSE ""

\* Promise.all([...dirs.map(recurse), ...files.map(leaf)]): every child is started
FanOut(ts, r, leafs, subs) ==
    [q \in DOMAIN ts \cup { Join(r, d) : d \in subs } |->
        IF q = r THEN [IdleTask EXCEPT !.pc = "wait", !.pend = leafs, !.subs = subs]
        ELSE IF q \in { Join(r, d) : d \in subs } THEN [IdleTask EXCEPT !.pc = "list"]
        ELSE ts[q]]

Failed(ts, r, code) == [ts EXCEPT ![r].pc = "failed", ![r].err = code]

LeafDone(ts, r, f, code) ==
    [ts EXCEPT ![r].pend = @ \ {f},
               ![r].leafErr = IF @ = "" THEN code ELSE @]

\* every promise handed to Promise.all has settled, resolved or rejected
AllSettled(r) ==
    /\ tasks[r].pc = "wait"
    /\ tasks[r].pend = {}
    /\ \A d \in tasks[r].subs : tasks[Join(r, d)].pc \in {"done", "failed"}

\* every promise handed to Promise.all has resolved
AllResolved(r) ==
    /\ tasks[r].pc = "wait"
    /\ tasks[r].pend = {}
    /\ tasks[r].leafErr = ""
    /\ \A d \in tasks[r].subs : tasks[Join(r, d)].pc = "done"

\* the errors Promise.all can reject with: those of the children that rejected
Rejections(r) ==
    (IF tasks[r].leafErr # "" THEN {tasks[r].leafErr} ELSE {})
        \cup { tasks[Join(r, d)].err : d \in { e \in tasks[r].subs : tasks[Join(r, e)].pc = "failed" } }

\* Promise.all rejects as soon as one child has: the invocation rejects, its
\* other children run on
rejectAll(r) ==
    /\ r \in DOMAIN tasks
    /\ tasks[r].pc = "wait"
    /\ \E code \in Rejections(r) : tasks' = Failed(tasks, r, code)
    /\ settled' = SettledWith(tasks')
    /\ lastOp' = NoOpMade
    /\ UNCHANGED <<fsTree, fsTree0, treeCall, trace>>

\* ---- removeDir / removeDirAsync ----

callRemoveDir(p) ==
    SyncCall("removeDir", p, <<>>, NoList, removeDir(Run(fsTree), p))

removeDirAsync(p) == AsyncCall("removeDirAsync", p, <<>>, NoList)

\* await Promise.all([this.getFilesAsync(filepath), this.getDirsAsync(filepath)])
\* and the fan-out that follows it
removeDirList(r) ==
    /\ treeCall.name = "removeDirAsync"
    /\ r \in DOMAIN tasks
    /\ tasks[r].pc = "list"
    /\ lastOp' = Op("readdir", Src(r), <<>>)
    /\ tasks' = IF readdirErr(fsTree, Src(r)) # ""
                THEN Failed(tasks, r, readdirErr(fsTree, Src(r)))
                ELSE FanOut(tasks, r, Range(getFiles(fsTree, Src(r))),
                            Range(getDirs(fsTree, Src(r))))
    /\ settled' = SettledWith(tasks')
    /\ UNCHANGED <<fsTree, fsTree0, treeCall, trace>>

\* this.removeFileAsync(path.join(filepath, file)) of one listed file
removeDirUnlink(r, f) ==
    /\ treeCall.name = "removeDirAsync"
    /\ r \in DOMAIN tasks
    /\ f \in tasks[r].pend
    /\ LET res == unlink(fsTree, Join(Src(r), f))
       IN  /\ fsTree' = res.tree
           /\ tasks' = LeafDone(tasks, r, f, res.err)
    /\ lastOp' = Op("unlink", Join(Src(r), f), <<>>)
    /\ UNCHANGED <<fsTree0, treeCall, settled, trace>>

\* await this.rmdirPromisify(filepath), after the Promise.all has resolved
removeDirRmdir(r) ==
    /\ treeCall.name = "removeDirAsync"
    /\ r \in DOMAIN tasks
    /\ AllResolved(r)
    /\ LET res == rmdir(fsTree, Src(r))
       IN  /\ fsTree' = res.tree
           /\ tasks' = IF res.err = "" THEN [tasks EXCEPT ![r].pc = "done"]
                       ELSE Failed(tasks, r, res.err)
    /\ settled' = SettledWith(tasks')
    /\ lastOp' = Op("rmdir", Src(r), <<>>)
    /\ UNCHANGED <<fsTree0, treeCall, trace>>

\* ---- copyDir / copyDirAsync ----

\* VFS.createDir(filepath): mkdir of the path up to its last "/"
createDir(t, p) == mkdir(t, Parent(p))

\* !fileExtensions: no list, or the empty string
NoFilter(list) == ~list.given \/ (~list.isArray /\ list.exts = {<<>>})

\* every file matches
matchesExtensionAlways(file, list) == TRUE

\* VFS.matchesExtension(file, extensions)
matchesExtension(file, list) == getFileExtension(file) \in list.exts

\* the files of a listing that the copy takes
Copied(fileList, list) ==
    SelectSeq(fileList, LAMBDA f : NoFilter(list) \/ matchesExtension(f, list))

\* VFS.copyFile as a call of a synchronous run
copyFile(st, src, dst) ==
    IF st.err # "" THEN st
    ELSE Made(st, copyFileFs(st.tree, src, dst), Op("copyFile", src, dst))

\* the files are copied before the destination directory is looked at
RECURSIVE copyDirFilesFirst(_, _, _, _)
copyDirFilesFirst(st, src, dst, list) ==
    IF st.err # "" THEN st
    ELSE IF readdirErr(st.tree, src) # ""
    THEN Thrown(st, readdirErr(st.tree, src), Op("readdir", src, <<>>))
    ELSE LET fileList == Copied(getFiles(st.tree, src), list)
             dirList == getDirs(st.tree, src)
             RECURSIVE EachDir(_, _)
             EachDir(s1, i) ==
                 IF i > Len(dirList) THEN s1
                 ELSE EachDir(copyDirFilesFirst(s1, Join(src, dirList[i]),
                                                Join(dst, dirList[i]), list), i + 1)
             RECURSIVE EachFile(_, _)
             EachFile(s2, i) ==
                 IF i > Len(fileList) THEN s2
                 ELSE EachFile(copyFile(s2, Join(src, fileList[i]), Join(dst, fileList[i])),
                               i + 1)
             copied == EachFile(st, 1)
             made == IF copied.err # "" \/ Exists(copied.tree, dst) THEN copied
                     ELSE Made(copied, createDir(copied.tree, TrailingSlash(dst)),
                               Op("mkdir", dst, <<>>))
         IN  EachDir(made, 1)

\* VFS.copyDir
RECURSIVE copyDir(_, _, _, _)
copyDir(st, src, dst, list) ==
    IF st.err # "" THEN st
    ELSE IF readdirErr(st.tree, src) # ""
    THEN Thrown(st, readdirErr(st.tree, src), Op("readdir", src, <<>>))
    ELSE LET fileList == Copied(getFiles(st.tree, src), list)
             dirList == getDirs(st.tree, src)
             RECURSIVE EachDir(_, _)
             EachDir(s1, i) ==
                 IF i > Len(dirList) THEN s1
                 ELSE EachDir(copyDir(s1, Join(src, dirList[i]), Join(dst, dirList[i]), list),
                              i + 1)
             RECURSIVE EachFile(_, _)
             EachFile(s2, i) ==
                 IF i > Len(fileList) THEN s2
                 ELSE EachFile(copyFile(s2, Join(src, fileList[i]), Join(dst, fileList[i])),
                               i + 1)
             made == IF Exists(st.tree, dst) THEN st
                     ELSE Made(st, createDir(st.tree, TrailingSlash(dst)),
                               Op("mkdir", dst, <<>>))
         IN  EachFile(EachDir(made, 1), 1)

callCopyDir(src, dst, list) ==
    SyncCall("copyDir", src, dst, list, copyDir(Run(fsTree), src, dst, list))

copyDirAsync(src, dst, list) == AsyncCall("copyDirAsync", src, dst, list)

\* await Promise.all([this.getFilesAsync(filepath), this.getDirsAsync(filepath)])
copyDirList(r) ==
    /\ treeCall.name = "copyDirAsync"
    /\ r \in DOMAIN tasks
    /\ tasks[r].pc = "list"
    /\ lastOp' = Op("readdir", Src(r), <<>>)
    /\ tasks' = IF readdirErr(fsTree, Src(r)) # ""
                THEN Failed(tasks, r, readdirErr(fsTree, Src(r)))
                ELSE [tasks EXCEPT ![r].pc = "exists",
                                   ![r].pend = Range(Copied(getFiles(fsTree, Src(r)),
                                                            treeCall.list)),
                                   ![r].subs = Range(getDirs(fsTree, Src(r)))]
    /\ settled' = SettledWith(tasks')
    /\ UNCHANGED <<fsTree, fsTree0, treeCall, trace>>

\* await this.existsAsync(target); when it exists the fan-out follows
copyDirExists(r) ==
    /\ treeCall.name = "copyDirAsync"
    /\ r \in DOMAIN tasks
    /\ tasks[r].pc = "exists"
    /\ lastOp' = Op("access", Dst(r), <<>>)
    /\ tasks' = IF Exists(fsTree, Dst(r))
                THEN FanOut(tasks, r, tasks[r].pend, tasks[r].subs)
                ELSE [tasks EXCEPT ![r].pc = "mkdir"]
    /\ UNCHANGED <<fsTree, fsTree0, treeCall, settled, trace>>

\* await this.createDirAsync(`${target}/`) and the fan-out that follows it
copyDirMkdir(r) ==
    /\ treeCall.name = "copyDirAsync"
    /\ r \in DOMAIN tasks
    /\ tasks[r].pc = "mkdir"
    /\ lastOp' = Op("mkdir", Dst(r), <<>>)
    /\ LET res == createDir(fsTree, TrailingSlash(Dst(r)))
       IN  /\ fsTree' = res.tree
           /\ tasks' = IF res.err # "" THEN Failed(tasks, r, res.err)
                       ELSE FanOut(tasks, r, tasks[r].pend, tasks[r].subs)
    /\ settled' = SettledWith(tasks')
    /\ UNCHANGED <<fsTree0, treeCall, trace>>

\* this.copyAsync(path.join(filepath, file), path.join(target, file)) of one file
copyDirCopy(r, f) ==
    /\ treeCall.name = "copyDirAsync"
    /\ r \in DOMAIN tasks
    /\ tasks[r].pc \in {"wait", "failed"}
    /\ f \in tasks[r].pend
    /\ LET res == copyFileFs(fsTree, Join(Src(r), f), Join(Dst(r), f))
       IN  /\ fsTree' = res.tree
           /\ tasks' = LeafDone(tasks, r, f, res.err)
    /\ lastOp' = Op("copyFile", Join(Src(r), f), Join(Dst(r), f))
    /\ UNCHANGED <<fsTree0, treeCall, settled, trace>>

\* the Promise.all resolves: the invocation returns
allResolved(r) ==
    /\ treeCall.name \in {"copyDirAsync", "minifyAllJsonInDirRecursiveAsync"}
    /\ r \in DOMAIN tasks
    /\ AllResolved(r)
    /\ tasks' = [tasks EXCEPT ![r].pc = "done"]
    /\ settled' = SettledWith(tasks')
    /\ lastOp' = NoOpMade
    /\ UNCHANGED <<fsTree, fsTree0, treeCall, trace>>

\* ---- JSON texts: JSON.parse and JSON.stringify ----

\* the texts of the files: 1, 1 and an empty array with whitespace, an
\* unterminated array
JsonTexts == { <<"1">>, <<" ", "1">>, <<"[", " ", "]">>, <<"[">> }

RECURSIVE TrimStart(_)
TrimStart(s) == IF s # <<>> /\ Head(s) = " " THEN TrimStart(Tail(s)) ELSE s

RECURSIVE TrimEnd(_)
TrimEnd(s) ==
    IF s # <<>> /\ s[Len(s)] = " " THEN TrimEnd(SubSeq(s, 1, Len(s) - 1)) ELSE s

IsNumber(s) == s # <<>> /\ \A i \in 1..Len(s) : s[i] = "1"

IsEmptyArray(s) ==
    /\ Len(s) >= 2
    /\ s[1] = "[" /\ s[Len(s)] = "]"
    /\ \A i \in 2..(Len(s) - 1) : s[i] = " "

\* JSON.parse: the value of the text, whitespace around the tokens skipped, or
\* a SyntaxError
parse(s) ==
    LET t == TrimEnd(TrimStart(s))
    IN  IF IsNumber(t) THEN [ok |-> TRUE, type |-> "number", digits |-> Len(t)]
        ELSE IF IsEmptyArray(t) THEN [ok |-> TRUE, type |-> "array", digits |-> 0]
        ELSE [ok |-> FALSE, type |-> "SyntaxError", digits |-> 0]

\* a serialization that indents
stringifyIndented(v) ==
    IF v.type = "number" THEN <<" ">> \o [i \in 1..v.digits |-> "1"] ELSE <<"[", " ", "]">>

\* JSON.stringify(value) without an indent argument: no whitespace
stringify(v) ==
    IF v.type = "number" THEN [i \in 1..v.digits |-> "1"] ELSE <<"[", "]">>

\* fs.writeFileSync(p, data) on an existing file
writeFileFs(t, p, txt) ==
    IF ~Exists(t, p) THEN FsErr(t, "ENOENT")
    ELSE IF IsDir(t, p) THEN FsErr(t, "EISDIR")
    ELSE IF t[p].ro THEN FsErr(t, "EPERM")
    ELSE FsOk(Put(t, p, FileNode(txt)))

\* the entries of a listing that getFileExtension gives "json" for
JsonOnly(names) == SelectSeq(names, LAMBDA n : getFileExtension(n) = JsonChars)

\* ---- minifyAllJsonInDirRecursive / minifyAllJsonInDirRecursiveAsync ----

\* readFile, JSON.stringify(JSON.parse(content)), writeFile of one file
minifyFile(st, p) ==
    IF st.err # "" THEN st
    ELSE LET v == parse(st.tree[p].bytes)
         IN  IF ~v.ok THEN Thrown(st, "SyntaxError", Op("parse", p, <<>>))
             ELSE Made(st, writeFileFs(st.tree, p, stringify(v)), Op("write", p, <<>>))

\* VFS.minifyAllJsonInDirRecursive: the files of the directory in a loop that
\* the first exception ends; then every subdirectory's invocation runs its own
\* loop as it is called inside dirs.map, whether or not an earlier one
\* rejected, and the Promise.all rejects with the first rejection
RECURSIVE minifyAllJsonInDirRecursive(_, _)
minifyAllJsonInDirRecursive(st, p) ==
    IF readdirErr(st.tree, p) # ""
    THEN Thrown(st, readdirErr(st.tree, p), Op("readdir", p, <<>>))
    ELSE LET fileList == JsonOnly(getFiles(st.tree, p))
             dirList == getDirs(st.tree, p)
             RECURSIVE EachFile(_, _)
             EachFile(s2, i) ==
                 IF i > Len(fileList) THEN s2
                 ELSE EachFile(minifyFile(s2, Join(p, fileList[i])), i + 1)
             RECURSIVE EachDir(_, _)
             EachDir(s1, i) ==
                 IF i > Len(dirList) THEN s1
                 ELSE LET sub == minifyAllJsonInDirRecursive([s1 EXCEPT !.err = ""],
                                                             Join(p, dirList[i]))
                      IN  EachDir([sub EXCEPT !.err = IF s1.err # "" THEN s1.err ELSE @],
                                  i + 1)
             looped == EachFile(st, 1)
         IN  IF looped.err # "" THEN looped ELSE EachDir(looped, 1)

callMinifyAllJsonInDirRecursive(p) ==
    SyncCall("minifyAllJsonInDirRecursive", p, <<>>, NoList,
             minifyAllJsonInDirRecursive(Run(fsTree), p))

minifyAllJsonInDirRecursiveAsync(p) ==
    AsyncCall("minifyAllJsonInDirRecursiveAsync", p, <<>>, NoList)

\* await this.getFilesAsync(filepath), await this.getDirsAsync(filepath) (no
\* step of the call changes a listing between the two), then a worker per
\* .json file and an invocation per subdirectory are started
minifyList(r) ==
    /\ treeCall.name = "minifyAllJsonInDirRecursiveAsync"
    /\ r \in DOMAIN tasks
    /\ tasks[r].pc = "list"
    /\ lastOp' = Op("readdir", Src(r), <<>>)
    /\ tasks' = IF readdirErr(fsTree, Src(r)) # ""
                THEN Failed(tasks, r, readdirErr(fsTree, Src(r)))
                ELSE FanOut(tasks, r, Range(JsonOnly(getFiles(fsTree, Src(r)))),
                            Range(getDirs(fsTree, Src(r))))
    /\ settled' = SettledWith(tasks')
    /\ UNCHANGED <<fsTree, fsTree0, treeCall, trace>>

\* what the worker of a file comes to: it posts "done" after the write
\* ("message"), throws on the parse or the write ("error"), or is ended from
\* outside with a non-zero code before it has read the file ("exit")
Worker(t, p, crashes) ==
    IF crashes THEN [tree |-> t, err |-> "EXIT", event |-> "exit"]
    ELSE LET v == parse(t[p].bytes)
             res == writeFileFs(t, p, stringify(v))
         IN  IF ~v.ok THEN [tree |-> t, err |-> "SyntaxError", event |-> "error"]
             ELSE IF res.err # "" THEN [tree |-> t, err |-> res.err, event |-> "error"]
             ELSE [tree |-> res.tree, err |-> "", event |-> "message"]

\* VFS.minifyJsonInWorker: the worker of one file runs and its promise settles
minifyJsonInWorker(r, f, crashes) ==
    /\ treeCall.name = "minifyAllJsonInDirRecursiveAsync"
    /\ r \in DOMAIN tasks
    /\ f \in tasks[r].pend
    /\ LET res == Worker(fsTree, Join(Src(r), f), crashes)
       IN  /\ fsTree' = res.tree
           /\ tasks' = LeafDone(tasks, r, f, res.err)
           /\ lastOp' = Op(res.event, Join(Src(r), f), <<>>)
           /\ trace' = Append(trace, Op(res.event, Join(Src(r), f), <<>>))
    /\ UNCHANGED <<fsTree0, treeCall, settled>>

\* ---- the trees the operations run on ----

Shape(root, files0, hasS, files1, b) ==
    [q \in {root}
        \cup { Join(root, f) : f \in files0 }
        \cup (IF hasS THEN {Join(root, DirS)} ELSE {})
        \cup { Join(Join(root, DirS), f) : f \in files1 } |->
        IF q = root \/ q = Join(root, DirS) THEN DirNode ELSE FileNode(b)]

\* a directory with any of the files and a subdirectory with any of the files
Trees(root, b) ==
    { Shape(root, f0, hs, f1, b) :
        f0 \in SUBSET FileNames, hs \in BOOLEAN, f1 \in SUBSET FileNames }
        \ { Shape(root, f0, FALSE, f1, b) :
               f0 \in SUBSET FileNames, f1 \in (SUBSET FileNames) \ {{}} }

EmptyFs == <<>>

FilesOf(t) == { q \in DOMAIN t : t[q].kind = "file" }

\* the tree with the files of P immutable
Protect(t, P) == [q \in DOMAIN t |-> IF q \in P THEN [t[q] EXCEPT !.ro = TRUE] ELSE t[q]]

\* at most one file of the tree is immutable
WithImmutable(ts) ==
    { Protect(t, P) : t \in ts, P \in { Q \in SUBSET (UNION { FilesOf(u) : u \in ts }) :
                                          Cardinality(Q) <= 1 } }

InitTreeCalls ==
    /\ fsTree0 = fsTree
    /\ treeCall = NoTreeCall
    /\ tasks = NoTasks
    /\ settled = ""
    /\ lastOp = NoOpMade
    /\ trace = <<>>

\* a tree at a, or nothing there
InitRemove ==
    /\ fsTree \in WithImmutable(Trees(PathA, 1)) \cup {EmptyFs}
    /\ InitTreeCalls

PathB == <<<<"b">>>>
PathPB == <<<<"p">>, <<"b">>>>
PathAB == <<<<"a">>, <<"b">>>>

\* where the copies go: next to the source, below a directory p, inside the source
Targets == {PathB, PathPB, PathAB}

\* what is at the destinations before the copy
DestStates ==
    { EmptyFs,
      [q \in {<<<<"p">>>>} |-> DirNode],
      [q \in {PathB} |-> DirNode],
      [q \in {PathB, Join(PathB, JsonFile)} |-> IF q = PathB THEN DirNode ELSE FileNode(2)],
      Protect([q \in {PathB, Join(PathB, JsonFile)} |->
                  IF q = PathB THEN DirNode ELSE FileNode(2)], {Join(PathB, JsonFile)}),
      [q \in {PathB, Join(PathB, DirS)} |-> IF q = PathB THEN DirNode ELSE FileNode(2)] }

Both(t, u) == [q \in DOMAIN t \cup DOMAIN u |-> IF q \in DOMAIN t THEN t[q] ELSE u[q]]

\* the destinations a run copies to, given what the filesystem holds
TargetsFor(t) ==
    IF <<<<"p">>>> \in DOMAIN t THEN {PathPB}
    ELSE IF PathB \in DOMAIN t THEN {PathB}
    ELSE Targets

\* the extension lists a copy is called with: none, arrays, a string
Lists ==
    { NoList,
      [given |-> TRUE, isArray |-> TRUE, exts |-> {JsonChars}],
      [given |-> TRUE, isArray |-> TRUE, exts |-> {}],
      [given |-> TRUE, isArray |-> FALSE, exts |-> {TxtChars}] }

InitCopy ==
    /\ fsTree \in { Both(t, u) : t \in Trees(PathA, 1) \cup {EmptyFs}, u \in DestStates }
    /\ InitTreeCalls

\* the tree with a text in every .json file and an indented 1 in the others
Written(t, texts) ==
    [q \in DOMAIN t |->
        IF t[q].kind # "file" THEN t[q]
        ELSE IF q \in DOMAIN texts THEN FileNode(texts[q])
        ELSE FileNode(<<" ", "1">>)]

JsonPaths(t) == { q \in FilesOf(t) : q[Len(q)] = JsonFile }

WithTexts(ts) == { Written(t, texts) : t \in ts, texts \in UNION { [JsonPaths(u) -> JsonTexts] : u \in ts } }

\* the trees, and those without a subdirectory with a file whose whole name is
\* json added
MinifyTrees ==
    Trees(PathA, <<>>)
        \cup { Put(Shape(PathA, f0, FALSE, {}, <<>>), Join(PathA, JsonChars), FileNode(<<>>)) :
                 f0 \in SUBSET FileNames }

\* a tree at a whose .json files hold any of the texts, or nothing there
InitMinify ==
    /\ fsTree \in UNION { WithImmutable(WithTexts({t})) : t \in MinifyTrees } \cup {EmptyFs}
    /\ InitTreeCalls

\* no recursive operation is ever called
TreeOff ==
    /\ fsTree = EmptyFs
    /\ InitTreeCalls

\* ------------------------------------------------------------------------
\* DatabaseImporter: paths, the hash tree, validateFile
\* ------------------------------------------------------------------------

\* A path is a sequence of tokens: the data root, names, "/" and extensions.
RootTok == "SPT_Data/Server/"
Sep == "/"
JsonExt == ".json"
ExtToks == {".json", ".min"}

\* this.sptDataPath in a release build
sptDataPath == RootTok

\* the files the loader can hand to the hook: <root>a/b.json, a/c.json, b.json,
\* a/b/c.json, a.json, a/b.min.json
FilePaths ==
    { <<RootTok, "a", Sep, "b", JsonExt>>,
      <<RootTok, "a", Sep, "c", JsonExt>>,
      <<RootTok, "b", JsonExt>>,
      <<RootTok, "a", Sep, "b", Sep, "c", JsonExt>>,
      <<RootTok, "a", JsonExt>>,
      <<RootTok, "a", Sep, "b", ".min", JsonExt>> }

\* file contents; "d0" stands for data the hash utility cannot digest
FileData == {"d0", "d1", "d2"}

\* this.hashUtil.generateSha1ForData(fileData)
generateSha1ForData(d) == IF d = "d1" THEN "h1" ELSE "h2"
generateSha1Throws(d) == d = "d0"

\* the content trees the loader can find: at most MaxFiles files, one datum each
FileSets ==
    UNION { [P -> FileData] : P \in {Q \in SUBSET FilePaths : Cardinality(Q) <= MaxFiles} }

\* values of the decoded checks file: a hash string, a nested object, undefined
Str(h) == [kind |-> "string", value |-> h, kids |-> <<>>]
Obj(k) == [kind |-> "object", value |-> "", kids |-> k]
Undefined == [kind |-> "undefined", value |-> "", kids |-> <<>>]

\* JavaScript truthiness: undefined and the empty string are falsy
Truthy(v) == v.kind = "object" \/ (v.kind = "string" /\ v.value # "")

\* tempObject[prop] on an object of the tree
Prop(v, key) ==
    IF v.kind = "object" /\ key \in DOMAIN v.kids THEN v.kids[key] ELSE Undefined

\* the hash manifests a checks file can hold
TreeFull ==
    Obj( (<<"a">> :> Obj( (<<"b">> :> Str("h1")) @@ (<<"c">> :> Str(""))
                          @@ (<<"b", ".min">> :> Str("h2")) ))
         @@ (<<"b">> :> Str("h2")) )
TreeLeafA == Obj( (<<"a">> :> Str("h1")) @@ (<<"b">> :> Str("h1")) )
TreeEmpty == Obj(<<>>)
HashTrees == {TreeFull, TreeLeafA, TreeEmpty}

ChecksFiles ==
    {[kind |-> "absent", tree |-> Undefined], [kind |-> "corrupt", tree |-> Undefined]}
    \cup {[kind |-> "tree", tree |-> t] : t \in HashTrees}

Min(S) == CHOOSE x \in S : \A y \in S : x <= y

\* String.prototype.replace(tok, ""): removes the first occurrence only
ReplaceFirst(str, tok) ==
    LET at == {i \in 1..Len(str) : str[i] = tok}
    IN  IF at = {} THEN str
        ELSE SubSeq(str, 1, Min(at) - 1) \o SubSeq(str, Min(at) + 1, Len(str))

\* String.prototype.split("/")
RECURSIVE Split(_)
Split(str) ==
    LET at == {i \in 1..Len(str) : str[i] = Sep}
    IN  IF at = {} THEN <<str>>
        ELSE <<SubSeq(str, 1, Min(at) - 1)>> \o Split(SubSeq(str, Min(at) + 1, Len(str)))

\* the path is split without removing ".json"
FinalPathKeepExtension(filePathAndName) ==
    Split(ReplaceFirst(filePathAndName, sptDataPath))

\* filePathAndName.replace(this.sptDataPath, "").replace(".json", "").split("/")
FinalPath(filePathAndName) ==
    Split(ReplaceFirst(ReplaceFirst(filePathAndName, sptDataPath), JsonExt))

\* the for loop of validateFile over the segments; "end" when the loop is left
RECURSIVE Walk(_, _)
Walk(tempObject, props) ==
    IF props = <<>> THEN [stop |-> "end", at |-> tempObject]
    ELSE IF tempObject.kind = "string" THEN [stop |-> "early", at |-> tempObject]
    ELSE LET next == Prop(tempObject, Head(props))
         IN  IF ~Truthy(next) THEN [stop |-> "notfound", at |-> next]
             ELSE Walk(next, Tail(props))

\* outcome of validateFile: which return statement is taken
validateOutcome(hashed, filePathAndName, fileData) ==
    IF ~Truthy(hashed) THEN "skipped"
    ELSE LET w == Walk(hashed, FinalPath(filePathAndName))
         IN  IF w.stop # "end" THEN w.stop
             ELSE IF w.at.kind # "string" THEN "object"
             ELSE IF generateSha1Throws(fileData) THEN "exception"
             ELSE IF w.at.value # generateSha1ForData(fileData) THEN "mismatch"
             ELSE "ok"

validateFile(hashed, filePathAndName, fileData) ==
    validateOutcome(hashed, filePathAndName, fileData) \in {"skipped", "ok"}

\* jsonUtil.deserialize(encodingUtil.fromBase64(vfs.readFile(filePath))) of a
\* checks file that is present: the tree, or an exception
deserialize(file) == IF file.kind = "tree" THEN file.tree ELSE Undefined
deserializeThrows(file) == file.kind # "tree"

NoHook == [called |-> FALSE, path |-> <<>>, data |-> "", outcome |-> "", valid |-> TRUE]

InitImporter ==
    /\ phase = "new"
    /\ releaseConfig \in BOOLEAN
    /\ checksFile \in ChecksFiles
    /\ hashedFile = Undefined
    /\ validationStatus = "UNDEFINED"
    /\ hooked = NoHook
    /\ seen = 0
    /\ tablesSet = FALSE
    /\ imagesLoaded = FALSE
    /\ files \in FileSets
    /\ pending = DOMAIN files
    /\ failure = ""

\* the importer is never loaded
ImporterOff ==
    /\ phase = "new" /\ releaseConfig = FALSE
    /\ checksFile = [kind |-> "absent", tree |-> Undefined]
    /\ hashedFile = Undefined /\ validationStatus = "UNDEFINED"
    /\ hooked = NoHook /\ seen = 0 /\ tablesSet = FALSE /\ imagesLoaded = FALSE
    /\ files = <<>> /\ pending = {} /\ failure = ""

\* hydration is started without waiting for loadHashedFile
onLoadSkipsManifest ==
    /\ phase = "new"
    /\ phase' = "hydrate"
    /\ UNCHANGED <<releaseConfig, checksFile, hashedFile, validationStatus, hooked, seen,
                   tablesSet, imagesLoaded, files, pending, failure>>

\* onLoad is called on the constructed importer
onLoad ==
    /\ phase = "new"
    /\ phase' = "loadHashedFile"
    /\ UNCHANGED <<releaseConfig, checksFile, hashedFile, validationStatus, hooked, seen,
                   tablesSet, imagesLoaded, files, pending, failure>>

\* loadHashedFile without the return after NOT_FOUND: the read of the absent file throws
loadHashedFileNoReturn ==
    /\ phase = "loadHashedFile"
    /\ phase' = "hydrate"
    /\ IF ~releaseConfig
       THEN UNCHANGED <<hashedFile, validationStatus>>
       ELSE IF deserializeThrows(checksFile)
            THEN /\ validationStatus' = "FAILED"
                 /\ UNCHANGED hashedFile
            ELSE /\ hashedFile' = deserialize(checksFile)
                 /\ UNCHANGED validationStatus
    /\ UNCHANGED <<releaseConfig, checksFile, hooked, seen, tablesSet, imagesLoaded,
                   files, pending, failure>>

\* loadHashedFile without the try/catch: the decode error makes onLoad reject
loadHashedFileNoCatch ==
    /\ phase = "loadHashedFile"
    /\ IF ~releaseConfig
       THEN /\ phase' = "hydrate"
            /\ UNCHANGED <<hashedFile, validationStatus, failure>>
       ELSE IF checksFile.kind = "absent"
            THEN /\ validationStatus' = "NOT_FOUND"
                 /\ phase' = "hydrate"
                 /\ UNCHANGED <<hashedFile, failure>>
            ELSE IF deserializeThrows(checksFile)
                 THEN /\ phase' = "rejected"
                      /\ failure' = "deserialize"
                      /\ UNCHANGED <<hashedFile, validationStatus>>
                 ELSE /\ hashedFile' = deserialize(checksFile)
                      /\ phase' = "hydrate"
                      /\ UNCHANGED <<validationStatus, failure>>
    /\ UNCHANGED <<releaseConfig, checksFile, hooked, seen, tablesSet, imagesLoaded,
                   files, pending>>

\* loadHashedFile without the test of the verified-mode flag
loadHashedFileAnyMode ==
    /\ phase = "loadHashedFile"
    /\ phase' = "hydrate"
    /\ IF checksFile.kind = "absent"
       THEN /\ validationStatus' = "NOT_FOUND"
            /\ UNCHANGED hashedFile
       ELSE IF deserializeThrows(checksFile)
            THEN /\ validationStatus' = "FAILED"
                 /\ UNCHANGED hashedFile
            ELSE /\ hashedFile' = deserialize(checksFile)
                 /\ UNCHANGED validationStatus
    /\ UNCHANGED <<releaseConfig, checksFile, hooked, seen, tablesSet, imagesLoaded,
                   files, pending, failure>>

\* await this.loadHashedFile()
loadHashedFile ==
    /\ phase = "loadHashedFile"
    /\ phase' = "hydrate"
    /\ IF ~releaseConfig
       THEN UNCHANGED <<hashedFile, validationStatus>>
       ELSE IF checksFile.kind = "absent"
            THEN /\ validationStatus' = "NOT_FOUND"
                 /\ UNCHANGED hashedFile
            ELSE IF deserializeThrows(checksFile)
                 THEN /\ validationStatus' = "FAILED"
                      /\ UNCHANGED hashedFile
                 ELSE /\ hashedFile' = deserialize(checksFile)
                      /\ UNCHANGED validationStatus
    /\ UNCHANGED <<releaseConfig, checksFile, hooked, seen, tablesSet, imagesLoaded,
                   files, pending, failure>>

\* the hook records the result of every file: SUCCESS for a valid one
onReadValidateOverwrites(fileWithPath, fileData) ==
    /\ phase = "hydrate"
    /\ fileWithPath \in pending /\ files[fileWithPath] = fileData
    /\ pending' = pending \ {fileWithPath}
    /\ seen' = seen + 1
    /\ IF releaseConfig /\ Truthy(hashedFile)
       THEN /\ hooked' = [called |-> TRUE, path |-> fileWithPath, data |-> fileData,
                          outcome |-> validateOutcome(hashedFile, fileWithPath, fileData),
                          valid |-> validateFile(hashedFile, fileWithPath, fileData)]
            /\ validationStatus' = IF validateFile(hashedFile, fileWithPath, fileData)
                                   THEN "SUCCESS" ELSE "FAILED"
       ELSE UNCHANGED <<hooked, validationStatus>>
    /\ UNCHANGED <<phase, releaseConfig, checksFile, hashedFile, tablesSet, imagesLoaded,
                   files, failure>>

\* the status follows the last file: a valid file resets it
onReadValidateLastWins(fileWithPath, fileData) ==
    /\ phase = "hydrate"
    /\ fileWithPath \in pending /\ files[fileWithPath] = fileData
    /\ pending' = pending \ {fileWithPath}
    /\ seen' = seen + 1
    /\ IF releaseConfig /\ Truthy(hashedFile)
       THEN /\ hooked' = [called |-> TRUE, path |-> fileWithPath, data |-> fileData,
                          outcome |-> validateOutcome(hashedFile, fileWithPath, fileData),
                          valid |-> validateFile(hashedFile, fileWithPath, fileData)]
            /\ validationStatus' = IF validateFile(hashedFile, fileWithPath, fileData)
                                   THEN "UNDEFINED" ELSE "FAILED"
       ELSE UNCHANGED <<hooked, validationStatus>>
    /\ UNCHANGED <<phase, releaseConfig, checksFile, hashedFile, tablesSet, imagesLoaded,
                   files, failure>>

\* a file that fails validation makes the hook throw: the loader, and onLoad, reject
onReadValidateAborts(fileWithPath, fileData) ==
    /\ phase = "hydrate"
    /\ fileWithPath \in pending /\ files[fileWithPath] = fileData
    /\ pending' = pending \ {fileWithPath}
    /\ seen' = seen + 1
    /\ IF releaseConfig /\ Truthy(hashedFile)
       THEN /\ hooked' = [called |-> TRUE, path |-> fileWithPath, data |-> fileData,
                          outcome |-> validateOutcome(hashedFile, fileWithPath, fileData),
                          valid |-> validateFile(hashedFile, fileWithPath, fileData)]
            /\ IF validateFile(hashedFile, fileWithPath, fileData)
               THEN UNCHANGED <<validationStatus, phase, failure>>
               ELSE /\ validationStatus' = "FAILED"
                    /\ phase' = "rejected"
                    /\ failure' = "validateFile"
       ELSE UNCHANGED <<hooked, validationStatus, phase, failure>>
    /\ UNCHANGED <<releaseConfig, checksFile, hashedFile, tablesSet, imagesLoaded, files>>

\* a valid file turns a status that is still UNDEFINED into SUCCESS
onReadValidateMarksSuccess(fileWithPath, fileData) ==
    /\ phase = "hydrate"
    /\ fileWithPath \in pending /\ files[fileWithPath] = fileData
    /\ pending' = pending \ {fileWithPath}
    /\ seen' = seen + 1
    /\ IF releaseConfig /\ Truthy(hashedFile)
       THEN /\ hooked' = [called |-> TRUE, path |-> fileWithPath, data |-> fileData,
                          outcome |-> validateOutcome(hashedFile, fileWithPath, fileData),
                          valid |-> validateFile(hashedFile, fileWithPath, fileData)]
            /\ validationStatus' = IF ~validateFile(hashedFile, fileWithPath, fileData)
                                   THEN "FAILED"
                                   ELSE IF validationStatus = "UNDEFINED" THEN "SUCCESS"
                                   ELSE validationStatus
       ELSE UNCHANGED <<hooked, validationStatus>>
    /\ UNCHANGED <<phase, releaseConfig, checksFile, hashedFile, tablesSet, imagesLoaded,
                   files, failure>>

\* the loader hands a file to this.onReadValidate during importerUtil.loadAsync
onReadValidate(fileWithPath, fileData) ==
    /\ phase = "hydrate"
    /\ fileWithPath \in pending /\ files[fileWithPath] = fileData
    /\ pending' = pending \ {fileWithPath}
    /\ seen' = seen + 1
    /\ IF releaseConfig /\ Truthy(hashedFile)
       THEN /\ hooked' = [called |-> TRUE, path |-> fileWithPath, data |-> fileData,
                          outcome |-> validateOutcome(hashedFile, fileWithPath, fileData),
                          valid |-> validateFile(hashedFile, fileWithPath, fileData)]
            /\ validationStatus' = IF validateFile(hashedFile, fileWithPath, fileData)
                                   THEN validationStatus ELSE "FAILED"
       ELSE UNCHANGED <<hooked, validationStatus>>
    /\ UNCHANGED <<phase, releaseConfig, checksFile, hashedFile, tablesSet, imagesLoaded,
                   files, failure>>

\* loadAsync resolves: hydrateDatabase hands the tables to the database server
hydrateDatabase ==
    /\ phase = "hydrate"
    /\ pending = {}
    /\ tablesSet' = TRUE
    /\ phase' = "images"
    /\ UNCHANGED <<releaseConfig, checksFile, hashedFile, validationStatus, hooked, seen,
                   imagesLoaded, files, pending, failure>>

\* the loader's failure is caught and the run goes on to the images
loadAsyncRejectsSwallowed ==
    /\ phase = "hydrate"
    /\ phase' = "images"
    /\ failure' = "loadAsync"
    /\ UNCHANGED <<releaseConfig, checksFile, hashedFile, validationStatus, hooked, seen,
                   tablesSet, imagesLoaded, files, pending>>

\* loadAsync rejects (content root missing or corrupt): onLoad rejects
loadAsyncRejects ==
    /\ phase = "hydrate"
    /\ phase' = "rejected"
    /\ failure' = "loadAsync"
    /\ UNCHANGED <<releaseConfig, checksFile, hashedFile, validationStatus, hooked, seen,
                   tablesSet, imagesLoaded, files, pending>>

\* await this.loadImagesFromDirectories()
loadImagesFromDirectories ==
    /\ phase = "images"
    /\ imagesLoaded' = TRUE
    /\ phase' = "done"
    /\ UNCHANGED <<releaseConfig, checksFile, hashedFile, validationStatus, hooked, seen,
                   tablesSet, files, pending, failure>>

\* onLoad is called again on the same importer once the previous call settled;
\* the loader reads the content files again
onLoadAgain ==
    /\ phase \in {"done", "rejected"}
    /\ phase' = "loadHashedFile"
    /\ pending' = DOMAIN files
    /\ seen' = 0
    /\ hooked' = NoHook
    /\ failure' = ""
    /\ UNCHANGED <<releaseConfig, checksFile, hashedFile, validationStatus, tablesSet,
                   imagesLoaded, files>>

\* this.vfs.getDirs(imageFilePath) throws (no images directory): onLoad rejects
getDirsThrows ==
    /\ phase = "images"
    /\ phase' = "rejected"
    /\ failure' = "getDirs"
    /\ UNCHANGED <<releaseConfig, checksFile, hashedFile, validationStatus, hooked, seen,
                   tablesSet, imagesLoaded, files, pending>>

\* ------------------------------------------------------------------------
\* DatabaseImporter: loadImagesFromDirectories
\* ------------------------------------------------------------------------

\* DatabaseImporter.IMAGE_ROUTES
IMAGE_ROUTES ==
    << "/files/achievement/", "/files/CONTENT/banners/", "/files/handbook/",
       "/files/Hideout/", "/files/launcher/", "/files/quest/icon/",
       "/files/trader/avatar/" >>

\* names of the subdirectories of the images root, in the order getDirs lists them
ImageDirNames == <<"d01", "d02", "d03", "d04", "d05", "d06", "d07", "d08", "d09", "d10">>

\* names of image files, as their characters, in the order getFiles lists them
ImageFileOrder == << <<"a", ".", "p">>, <<"a", ".", "b", ".", "p">>, <<"n">> >>

\* the listings getFiles can return for a subdirectory
ImageListings ==
    { SelectSeq(ImageFileOrder, LAMBDA f : f \in S) : S \in SUBSET Range(ImageFileOrder) }

\* `${this.sptDataPath}images/`
imageFilePath == <<sptDataPath, "images/">>

\* `${imageFilePath}${dir}/${file}`
ImagePath(dir, file) == imageFilePath \o <<dir, "/">> \o file

\* the configurations: no override, or one for the first file of the first
\* subdirectory
OverrideConfigs ==
    { <<>>, (ImagePath(ImageDirNames[1], ImageFileOrder[1]) :> <<"custom", "/", "a", ".", "p">>) }

\* no override is ever configured
getImagePathOverrideNone(imagePath) == <<>>

\* this.httpConfig.serverImagePathOverride[imagePath]; <<>> stands for undefined
getImagePathOverride(imagePath) ==
    IF imagePath \in DOMAIN serverImagePathOverride
    THEN serverImagePathOverride[imagePath]
    ELSE <<>>

\* DatabaseImporter.IMAGE_ROUTES[index] inside a template literal: the text
\* "undefined" beyond the end of the array (index counts from 1 here)
RoutePrefix(index) ==
    IF index <= Len(IMAGE_ROUTES) THEN IMAGE_ROUTES[index] ELSE "undefined"

\* `${DatabaseImporter.IMAGE_ROUTES[index]}${filename}`
RouteKey(index, file) == <<RoutePrefix(index)>> \o stripExtension(file)

\* pathOverride || imagePath
RoutePath(imagePath) ==
    IF getImagePathOverride(imagePath) # <<>> THEN getImagePathOverride(imagePath)
    ELSE imagePath

\* this.imageRouter.addRoute(key, path)
addRoute(rs, key, path) == Append(rs, [key |-> key, path |-> path])

\* files.forEach(file => ... addRoute(routeKey, pathOverride || imagePath))
RECURSIVE EachImage(_, _, _, _)
EachImage(rs, index, listing, k) ==
    IF k > Len(listing) THEN rs
    ELSE EachImage(addRoute(rs, RouteKey(index, listing[k]),
                            RoutePath(ImagePath(imageDirs[index], listing[k]))),
                   index, listing, k + 1)

FaviconKey == <<"/favicon.ico">>
FaviconPath == <<sptDataPath, "icon.ico">>

InitImages ==
    /\ imageDirs \in { SubSeq(ImageDirNames, 1, n) : n \in 0..MaxDirs }
    /\ \E listing \in ImageListings : imageFiles = [d \in Range(imageDirs) |-> listing]
    /\ serverImagePathOverride \in OverrideConfigs
    /\ routes = <<>>
    /\ imagePc = "new"
    /\ imageIndex = 1

\* loadImagesFromDirectories is never called
ImagesOff ==
    /\ imageDirs = <<>> /\ imageFiles = <<>> /\ serverImagePathOverride = <<>>
    /\ routes = <<>> /\ imagePc = "new" /\ imageIndex = 1

\* loadImagesFromDirectories is called: this.vfs.getDirs(imageFilePath)
listImageDirs ==
    /\ imagePc = "new"
    /\ imagePc' = "map"
    /\ UNCHANGED <<imageDirs, imageFiles, serverImagePathOverride, routes, imageIndex>>

\* directories.map(async (dir, index) => ...): the callback of the next
\* subdirectory runs to its end
registerImageDir ==
    /\ imagePc = "map"
    /\ imageIndex <= Len(imageDirs)
    /\ routes' = EachImage(routes, imageIndex, imageFiles[imageDirs[imageIndex]], 1)
    /\ imageIndex' = imageIndex + 1
    /\ UNCHANGED <<imageDirs, imageFiles, serverImagePathOverride, imagePc>>

\* await Promise.all(loadPromises), then the favicon route
registerFavicon ==
    /\ imagePc = "map"
    /\ imageIndex > Len(imageDirs)
    /\ routes' = addRoute(routes, FaviconKey, FaviconPath)
    /\ imagePc' = "done"
    /\ UNCHANGED <<imageDirs, imageFiles, serverImagePathOverride, imageIndex>>

\* ------------------------------------------------------------------------
\* VFS.existsAsync: the promise chain around the queued access check
\* ------------------------------------------------------------------------

\* what is at the path: fs.access succeeds for a file and for a directory,
\* fails with ENOENT for a missing path and with EACCES for one out of reach
PathStates == {"file", "dir", "absent", "denied"}

\* the command queue runs the command and settles as the command does, or
\* fails itself: its promise rejects, or waitFor throws before returning one
QueueStates == {"runs", "rejects", "throws"}

Fulfilled(v) == [state |-> "fulfilled", value |-> v]
Rejected(e) == [state |-> "rejected", value |-> e]
Raised(e) == [state |-> "thrown", value |-> e]

\* promise.then(() => v)
Then(pr, v) == IF pr.state = "fulfilled" THEN Fulfilled(v) ELSE pr

\* promise.catch(() => v)
Catch(pr, v) == IF pr.state = "rejected" THEN Fulfilled(v) ELSE pr

\* an async function: what its body throws rejects the promise it returns
Async(body) == IF body.state = "thrown" THEN Rejected(body.value) ELSE body

\* promisify(fs.access)(filepath)
accessFilePromisify(at) ==
    IF at \in {"file", "dir"} THEN Fulfilled("undefined")
    ELSE Rejected(IF at = "absent" THEN "ENOENT" ELSE "EACCES")

\* asyncQueue.waitFor(command): the queue's outcome for a command that
\* settles as cmd does
waitFor(qs, cmd) ==
    IF qs = "runs" THEN cmd
    ELSE IF qs = "rejects" THEN Rejected("queue") ELSE Raised("queue")

\* queueCommand without the async keyword: what waitFor throws leaves the
\* function as an exception
queueCommandNotAsync(qs, cmd) == waitFor(qs, cmd)

\* private async queueCommand(cmd): return this.asyncQueue.waitFor(command)
queueCommand(qs, cmd) == Async(waitFor(qs, cmd))

\* public async existsAsync(filepath):
\*     return this.queueCommand(() => access).then(() => true).catch(() => false)
existsAsyncPromise(qs, at) ==
    Async(Catch(Then(queueCommand(qs, accessFilePromisify(at)), TRUE), FALSE))

NoProbe == [pc |-> "idle", at |-> "", qs |-> ""]

InitProbe ==
    /\ probe = NoProbe
    /\ probeLog = <<>>

\* existsAsync is never called
ProbeOff ==
    /\ probe = NoProbe
    /\ probeLog = <<>>

\* a caller calls existsAsync(filepath): the command is handed to the queue
callExistsAsync(at, qs) ==
    /\ probe.pc = "idle"
    /\ Len(probeLog) < MaxProbes
    /\ probe' = [pc |-> "queued", at |-> at, qs |-> qs]
    /\ UNCHANGED probeLog

\* the promise existsAsync returned settles
settleExistsAsync ==
    /\ probe.pc = "queued"
    /\ probeLog' = Append(probeLog,
            [at |-> probe.at, qs |-> probe.qs,
             access |-> IF probe.qs = "runs" THEN accessFilePromisify(probe.at).state
                        ELSE "not run",
             outcome |-> existsAsyncPromise(probe.qs, probe.at)])
    /\ probe' = NoProbe

\* ------------------------------------------------------------------------
\* BundleLoader
\* ------------------------------------------------------------------------

\* the mod directory whose bundles.json is loaded, as path tokens
Mods == { <<"user", "/", "mods", "/", "a", "/">> }
Keys == {"k1", "k2"}
Bytes == 1..NumBytes

\* <modpath>/bundles.json after jsonUtil.deserialize: k1 depends on k2, k2
\* declares no dependencyKeys
Manifest(m) ==
    << [key |-> "k1", hasDeps |-> TRUE, dependencyKeys |-> <<"k2">>],
       [key |-> "k2", hasDeps |-> FALSE, dependencyKeys |-> <<>>] >>

\* path.join(modpath, "bundles", entry.key)
BundlePath(m, key) == m \o <<"bundles", "/", key>>
BundlePaths ==
    UNION {{BundlePath(m, Manifest(m)[i].key) : i \in 1..Len(Manifest(m))} : m \in Mods}

\* path.normalize(modpath.slice(0, -1)): the mod directory without its last character
NormalizedModPath(m) == SubSeq(m, 1, Len(m) - 1)

\* the hash of a file's bytes (distinct contents have distinct hashes)
Crc(b) == 1000 + 37 * b

\* heap cells
Addrs == 1..(2 * (Cardinality(Keys) + MaxReturned + 1))
FreeCell == [kind |-> "free", modpath |-> <<>>, filename |-> "", crc |-> 0,
             dependencies |-> 0, items |-> <<>>]
ArrayCell(xs) == [FreeCell EXCEPT !.kind = "array", !.items = xs]
InfoCell(mp, fn, c, deps) ==
    [FreeCell EXCEPT !.kind = "info", !.modpath = mp, !.filename = fn, !.crc = c,
                     !.dependencies = deps]

\* cells a caller or the registry can still reach
Reachable(h, reg, ret) ==
    LET roots == ({reg[k] : k \in Keys} \cup ret) \ {0}
    IN  (roots \cup {h[a].dependencies : a \in roots}) \ {0}

\* garbage collection: unreachable cells are free again
Collect(h, reg, ret) ==
    [a \in Addrs |-> IF a \in Reachable(h, reg, ret) THEN h[a] ELSE FreeCell]

\* the address the next `new` gets
NewAddr(h, reg, ret, taken) == Min(Addrs \ (Reachable(h, reg, ret) \cup taken))

\* the order in which Object.values / a manifest enumerates the keys
KeyOrder == <<"k1", "k2">>

RECURSIVE Ascending(_)
Ascending(S) == IF S = {} THEN <<>> ELSE <<Min(S)>> \o Ascending(S \ {Min(S)})

RECURSIVE FirstOccurrences(_)
FirstOccurrences(xs) ==
    IF xs = <<>> THEN <<>>
    ELSE LET front == FirstOccurrences(SubSeq(xs, 1, Len(xs) - 1))
             x == xs[Len(xs)]
         IN  IF x = 0 \/ x \in {front[i] : i \in 1..Len(front)} THEN front
             ELSE Append(front, x)

RECURSIVE WithDependencies(_, _)
WithDependencies(h, roots) ==
    IF roots = <<>> THEN <<>>
    ELSE <<Head(roots), h[Head(roots)].dependencies>> \o WithDependencies(h, Tail(roots))

\* the live cells: the registry's entries in key order, then the callers' values
LiveCells(h, reg, ret) ==
    FirstOccurrences(WithDependencies(h,
        FirstOccurrences([i \in 1..Len(KeyOrder) |-> reg[KeyOrder[i]]] \o Ascending(ret))))

\* a compacting collection: the live cells are moved to the lowest addresses
\* and every reference follows its object (object identity is kept)
Compact(h, reg, ret) ==
    LET live == LiveCells(h, reg, ret)
        moved(a) == IF a = 0 THEN 0 ELSE CHOOSE i \in 1..Len(live) : live[i] = a
    IN  [heap |-> [a \in Addrs |->
                     IF a <= Len(live)
                     THEN [h[live[a]] EXCEPT !.dependencies = moved(@)]
                     ELSE FreeCell],
         bundles |-> [k \in Keys |-> moved(reg[k])],
         returned |-> {moved(r) : r \in ret},
         moved |-> [a \in Reachable(h, reg, ret) \cup {0} |-> moved(a)]]

\* the value of a BundleInfo as a caller reads it (fields and dependency list)
ValueOf(h, a) ==
    [modpath |-> h[a].modpath, filename |-> h[a].filename, crc |-> h[a].crc,
     dependencies |-> h[h[a].dependencies].items]

\* what getBundle/getBundles read from the registry
RegistryView ==
    [k \in Keys |-> IF bundles[k] = 0 THEN <<>> ELSE <<ValueOf(heap, bundles[k])>>]

\* bundleHashCacheService.calculateAndMatchHash(bundlePath)
calculateAndMatchHash(cache, path) == cache[path] = Crc(bundleFiles[path])

\* bundleHashCacheService.calculateAndStoreHash(bundlePath)
calculateAndStoreHash(cache, path) == [cache EXCEPT ![path] = Crc(bundleFiles[path])]

\* bundleHashCacheService.getStoredValue(bundlePath)
getStoredValue(cache, path) == cache[path]

\* no getBundle call has settled in the step just taken
NoGet == [key |-> "", outcome |-> "none", addr |-> 0]

\* a path no addBundles call has registered yet
NeverHashed == [bytes |-> 0, crc |-> 0, stored |-> FALSE, prevBytes |-> 0, prevCrc |-> 0]

\* the condition is inverted: the hash is stored only when the cache already matches
NeedsStoreInverted(cache, path) == calculateAndMatchHash(cache, path)

\* the hash is stored for every entry, without consulting the match check
NeedsStoreAlways(cache, path) == TRUE

\* if (!calculateAndMatchHash(bundlePath)) calculateAndStoreHash(bundlePath)
NeedsStore(cache, path) == ~calculateAndMatchHash(cache, path)

\* the failure of an entry is caught: the entry is skipped and the loop goes on
\* with the entries after it
ProcessEntrySkipping(st, m, entry) ==
    LET path == BundlePath(m, entry.key)
        store == NeedsStore(st.cache, path)
        cache1 == IF store THEN calculateAndStoreHash(st.cache, path) ELSE st.cache
        bundleHash == getStoredValue(cache1, path)
        arr == NewAddr(st.heap, st.bundles, returned, {})
        info == NewAddr(st.heap, st.bundles, returned, {arr})
        heap1 == [st.heap EXCEPT
                    ![arr] = ArrayCell(IF entry.hasDeps THEN entry.dependencyKeys ELSE <<>>),
                    ![info] = InfoCell(NormalizedModPath(m), entry.key, bundleHash, arr)]
    IN  IF bundleFiles[path] = 0
        THEN st
        ELSE [heap |-> heap1,
              bundles |-> [st.bundles EXCEPT ![entry.key] = info],
              cache |-> cache1,
              lastHashed |-> [st.lastHashed EXCEPT
                            ![path] = [bytes |-> bundleFiles[path], crc |-> bundleHash,
                                       stored |-> store,
                                       prevBytes |-> @.bytes, prevCrc |-> @.crc]],
              inserted |-> [st.inserted EXCEPT ![entry.key] =
                              <<[modpath |-> NormalizedModPath(m), filename |-> entry.key,
                                 crc |-> bundleHash,
                                 dependencies |-> IF entry.hasDeps THEN entry.dependencyKeys
                                                  ELSE <<>>]>>],
              threw |-> FALSE]

\* one iteration of the for loop of addBundles; st carries the loop's state
ProcessEntry(st, m, entry) ==
    LET path == BundlePath(m, entry.key)
        store == NeedsStore(st.cache, path)
        cache1 == IF store THEN calculateAndStoreHash(st.cache, path) ELSE st.cache
        bundleHash == getStoredValue(cache1, path)
        arr == NewAddr(st.heap, st.bundles, returned, {})
        info == NewAddr(st.heap, st.bundles, returned, {arr})
        heap1 == [st.heap EXCEPT
                    ![arr] = ArrayCell(IF entry.hasDeps THEN entry.dependencyKeys ELSE <<>>),
                    ![info] = InfoCell(NormalizedModPath(m), entry.key, bundleHash, arr)]
    IN  IF st.threw \/ bundleFiles[path] = 0
        THEN [st EXCEPT !.threw = TRUE]
        ELSE [heap |-> heap1,
              bundles |-> [st.bundles EXCEPT ![entry.key] = info],
              cache |-> cache1,
              lastHashed |-> [st.lastHashed EXCEPT
                            ![path] = [bytes |-> bundleFiles[path], crc |-> bundleHash,
                                       stored |-> store,
                                       prevBytes |-> @.bytes, prevCrc |-> @.crc]],
              inserted |-> [st.inserted EXCEPT ![entry.key] =
                              <<[modpath |-> NormalizedModPath(m), filename |-> entry.key,
                                 crc |-> bundleHash,
                                 dependencies |-> IF entry.hasDeps THEN entry.dependencyKeys
                                                  ELSE <<>>]>>],
              threw |-> FALSE]

RECURSIVE ProcessEntries(_, _, _)
ProcessEntries(st, m, entries) ==
    IF entries = <<>> THEN st
    ELSE ProcessEntries(ProcessEntry(st, m, Head(entries)), m, Tail(entries))

\* BundleLoader.addBundles(modpath)
addBundles(m) ==
    LET st == ProcessEntries([heap |-> heap, bundles |-> bundles, cache |-> bundleHashes,
                              lastHashed |-> lastHashed, inserted |-> inserted,
                              threw |-> FALSE],
                             m, Manifest(m))
        gc == Compact(st.heap, st.bundles, returned)
    IN  /\ bundles' = gc.bundles
        /\ heap' = gc.heap
        /\ returned' = gc.returned
        /\ bundleHashes' = st.cache
        /\ lastHashed' = st.lastHashed
        /\ inserted' = st.inserted
        /\ direct' = direct \ {k \in Keys : st.bundles[k] # bundles[k]}
        /\ lastGet' = NoGet
        /\ UNCHANGED bundleFiles

\* hashes a caller can put into a BundleInfo it constructs itself: one the
\* cache can hold, and one no bundle file has
CallerHashes == {Crc(1), 7}

\* the first BundleInfo inserted for a key stays: a same-key insert is ignored
addBundleKeepFirst(key, m, crc) ==
    LET arr == NewAddr(heap, bundles, returned, {})
        info == NewAddr(heap, bundles, returned, {arr})
        heap1 == [heap EXCEPT ![arr] = ArrayCell(<<>>),
                              ![info] = InfoCell(NormalizedModPath(m), key, crc, arr)]
        bundles1 == IF bundles[key] = 0 THEN [bundles EXCEPT ![key] = info] ELSE bundles
        gc == Compact(heap1, bundles1, returned)
    IN  /\ bundles' = gc.bundles
        /\ heap' = gc.heap
        /\ returned' = gc.returned
        /\ direct' = direct \cup {key}
        /\ lastGet' = NoGet
        /\ inserted' = [inserted EXCEPT ![key] =
                            <<[modpath |-> NormalizedModPath(m), filename |-> key,
                               crc |-> crc, dependencies |-> <<>>]>>]
        /\ UNCHANGED <<bundleHashes, bundleFiles, lastHashed>>

\* BundleLoader.addBundle(key, bundle), called directly with a BundleInfo the
\* caller constructed (new BundleInfo(modpath, key, crc, []))
addBundle(key, m, crc) ==
    LET arr == NewAddr(heap, bundles, returned, {})
        info == NewAddr(heap, bundles, returned, {arr})
        heap1 == [heap EXCEPT ![arr] = ArrayCell(<<>>),
                              ![info] = InfoCell(NormalizedModPath(m), key, crc, arr)]
        bundles1 == [bundles EXCEPT ![key] = info]
        gc == Compact(heap1, bundles1, returned)
    IN  /\ bundles' = gc.bundles
        /\ heap' = gc.heap
        /\ returned' = gc.returned
        /\ direct' = direct \cup {key}
        /\ lastGet' = NoGet
        /\ inserted' = [inserted EXCEPT ![key] =
                            <<[modpath |-> NormalizedModPath(m), filename |-> key,
                               crc |-> crc, dependencies |-> <<>>]>>]
        /\ UNCHANGED <<bundleHashes, bundleFiles, lastHashed>>

\* BundleLoader.addBundle(key, bundle), called by a caller that keeps the
\* BundleInfo it passed: this.bundles[key] = bundle stores that very object,
\* so the caller's reference and the registry's entry are one object
addBundleKeepingReference(key, m, crc) ==
    LET arr == NewAddr(heap, bundles, returned, {})
        info == NewAddr(heap, bundles, returned, {arr})
        heap1 == [heap EXCEPT ![arr] = ArrayCell(<<>>),
                              ![info] = InfoCell(NormalizedModPath(m), key, crc, arr)]
        bundles1 == [bundles EXCEPT ![key] = info]
        gc == Compact(heap1, bundles1, returned \cup {info})
    IN  /\ Cardinality(returned) < MaxReturned
        /\ bundles' = gc.bundles
        /\ heap' = gc.heap
        /\ returned' = gc.returned
        /\ direct' = direct \cup {key}
        /\ lastGet' = NoGet
        /\ inserted' = [inserted EXCEPT ![key] =
                            <<[modpath |-> NormalizedModPath(m), filename |-> key,
                               crc |-> crc, dependencies |-> <<>>]>>]
        /\ UNCHANGED <<bundleHashes, bundleFiles, lastHashed>>

\* this.cloner.clone(bundle): a new BundleInfo with a new dependencies array
clone(h, a, reg, ret) ==
    LET arr == NewAddr(h, reg, ret, {})
        info == NewAddr(h, reg, ret, {arr})
    IN  [addr |-> info,
         heap |-> [h EXCEPT ![arr] = ArrayCell(h[h[a].dependencies].items),
                            ![info] = [h[a] EXCEPT !.dependencies = arr]]]

\* the stored BundleInfo itself is returned
getBundleNoClone(key) ==
    /\ Cardinality(returned) < MaxReturned
    /\ IF bundles[key] = 0
       THEN /\ lastGet' = [key |-> key, outcome |-> "not found", addr |-> 0]
            /\ UNCHANGED <<heap, returned>>
       ELSE LET gc == Compact(heap, bundles, returned \cup {bundles[key]})
            IN  /\ returned' = gc.returned
                /\ heap' = gc.heap
                /\ lastGet' = [key |-> key, outcome |-> "returned",
                               addr |-> gc.moved[bundles[key]]]
    /\ UNCHANGED <<bundles, bundleHashes, bundleFiles, lastHashed, direct, inserted>>

\* the lookup has no check: an unknown key yields undefined instead of an error
getBundleNoCheck(key) ==
    /\ Cardinality(returned) < MaxReturned
    /\ IF bundles[key] = 0
       THEN /\ lastGet' = [key |-> key, outcome |-> "returned", addr |-> 0]
            /\ UNCHANGED <<heap, returned>>
       ELSE LET c == clone(heap, bundles[key], bundles, returned)
                gc == Compact(c.heap, bundles, returned \cup {c.addr})
            IN  /\ returned' = gc.returned
                /\ heap' = gc.heap
                /\ lastGet' = [key |-> key, outcome |-> "returned",
                               addr |-> gc.moved[c.addr]]
    /\ UNCHANGED <<bundles, bundleHashes, bundleFiles, lastHashed, direct, inserted>>

\* BundleLoader.getBundle(key): throws for an unknown key, else returns a clone
getBundle(key) ==
    /\ Cardinality(returned) < MaxReturned
    /\ IF bundles[key] = 0
       THEN /\ lastGet' = [key |-> key, outcome |-> "not found", addr |-> 0]
            /\ UNCHANGED <<heap, returned>>
       ELSE LET c == clone(heap, bundles[key], bundles, returned)
                gc == Compact(c.heap, bundles, returned \cup {c.addr})
            IN  /\ returned' = gc.returned
                /\ heap' = gc.heap
                /\ lastGet' = [key |-> key, outcome |-> "returned",
                               addr |-> gc.moved[c.addr]]
    /\ UNCHANGED <<bundles, bundleHashes, bundleFiles, lastHashed, direct, inserted>>

\* Object.values(this.bundles).map(bundle => clone(bundle)), entry by entry
RECURSIVE CloneAll(_, _, _)
CloneAll(h, ret, keys) ==
    IF keys = {} THEN [heap |-> h, returned |-> ret]
    ELSE LET k == CHOOSE x \in keys : TRUE
             c == clone(h, bundles[k], bundles, ret)
         IN  CloneAll(c.heap, ret \cup {c.addr}, keys \ {k})

\* BundleLoader.getBundles()
getBundles ==
    LET stored == {k \in Keys : bundles[k] # 0}
        all == CloneAll(heap, returned, stored)
        gc == Compact(all.heap, bundles, all.returned)
    IN  /\ Cardinality(returned) + Cardinality(stored) <= MaxReturned
        /\ heap' = gc.heap
        /\ returned' = gc.returned
        /\ lastGet' = NoGet
        /\ UNCHANGED <<bundles, bundleHashes, bundleFiles, lastHashed, direct, inserted>>

\* a caller writes a field of a value it was given, or pushes onto its dependencies
MutationKinds == {"crc", "push"}
Mutated(h, r, kind) ==
    IF kind = "crc" THEN [h EXCEPT ![r].crc = -1]
    ELSE [h EXCEPT ![h[r].dependencies].items = Append(h[h[r].dependencies].items, "mutated")]

mutateReturned(r, kind) ==
    /\ r \in returned
    /\ kind = "push" => "mutated" \notin {heap[heap[r].dependencies].items[i] :
                                            i \in 1..Len(heap[heap[r].dependencies].items)}
    /\ heap' = Mutated(heap, r, kind)
    /\ heap' # heap
    /\ lastGet' = NoGet
    /\ UNCHANGED <<bundles, bundleHashes, bundleFiles, returned, lastHashed, direct, inserted>>

\* the caller drops a value it was given
dropReturned(r) ==
    /\ r \in returned
    /\ LET gc == Compact(heap, bundles, returned \ {r})
       IN  /\ returned' = gc.returned
           /\ heap' = gc.heap
           /\ bundles' = gc.bundles
    /\ lastGet' = NoGet
    /\ UNCHANGED <<bundleHashes, bundleFiles, lastHashed, direct, inserted>>

\* the bytes of a bundle file change on disk between two calls
modifyBundleFile(path, b) ==
    /\ bundleFiles[path] # b
    /\ bundleFiles' = [bundleFiles EXCEPT ![path] = b]
    /\ lastGet' = NoGet
    /\ UNCHANGED <<heap, bundles, bundleHashes, returned, lastHashed, direct, inserted>>

InitBundles ==
    /\ heap = [a \in Addrs |-> FreeCell]
    /\ bundles = [k \in Keys |-> 0]
    /\ bundleHashes \in {[p \in BundlePaths |-> 0], [p \in BundlePaths |-> Crc(1)]}
    /\ bundleFiles = [p \in BundlePaths |-> 1]
    /\ returned = {}
    /\ lastHashed = [p \in BundlePaths |-> NeverHashed]
    /\ lastGet = NoGet
    /\ direct = {}
    /\ inserted = [k \in Keys |-> <<>>]

\* no bundle is ever loaded
BundlesOff ==
    /\ heap = [a \in Addrs |-> FreeCell]
    /\ bundles = [k \in Keys |-> 0]
    /\ bundleHashes = [p \in BundlePaths |-> 0]
    /\ bundleFiles = [p \in BundlePaths |-> 1]
    /\ returned = {}
    /\ lastHashed = [p \in BundlePaths |-> NeverHashed]
    /\ lastGet = NoGet
    /\ direct = {}
    /\ inserted = [k \in Keys |-> <<>>]

\* ------------------------------------------------------------------------
\* Specifications
\* ------------------------------------------------------------------------

notVFS == <<writeEnv, asyncVars, treeVars, helperVars, importerVars, bundleVars, imageVars, probeVars>>
notImporter == <<vfsVars, writeEnv, asyncVars, treeVars, helperVars, bundleVars, imageVars, probeVars>>
notBundles == <<vfsVars, writeEnv, asyncVars, treeVars, helperVars, importerVars, imageVars, probeVars>>
notDisk == <<writeEnv, treeVars, helperVars, importerVars, bundleVars, imageVars, probeVars>>
notWrite == <<writeEnv, op, items, opResult, others, treeVars, helperVars, importerVars,
              bundleVars, imageVars, probeVars>>
notHelpers == <<vfsVars, writeEnv, asyncVars, treeVars, importerVars, bundleVars, imageVars, probeVars>>
notCalls == <<asyncVars, treeVars, helperVars, importerVars, bundleVars, imageVars, probeVars>>
notTree == <<vfsVars, writeEnv, asyncVars, helperVars, importerVars, bundleVars, imageVars, probeVars>>

NextVFS ==
    \/ \E w \in Writers, d \in Payloads, app \in BOOLEAN, atm \in BOOLEAN,
          fails \in BOOLEAN, k \in 0..(PayloadLen - 1) :
            writeFile(w, d, app, atm, fails, k) /\ UNCHANGED notVFS
    \/ \E w \in Writers, d \in Payloads, app \in BOOLEAN, atm \in BOOLEAN :
            writeFileAsync(w, d, app, atm) /\ UNCHANGED notVFS
    \/ \E w \in Writers : existsAsync(w) /\ UNCHANGED notVFS
    \/ \E w \in Writers : createDirAsync(w) /\ UNCHANGED notVFS
    \/ \E w \in Writers : createEmptyAsync(w) /\ UNCHANGED notVFS
    \/ \E w \in Writers : lockAsync(w) /\ UNCHANGED notVFS
    \/ \E w \in Writers : openAsync(w) /\ UNCHANGED notVFS
    \/ \E w \in Writers : writeChunkAsync(w) /\ UNCHANGED notVFS
    \/ \E w \in Writers : writeDoneAsync(w) /\ UNCHANGED notVFS
    \/ \E w \in Writers : writeRejectAsync(w) /\ UNCHANGED notVFS
    \/ \E w \in Writers : finallyRelease(w) /\ UNCHANGED notVFS
    \/ readFile /\ UNCHANGED notVFS

InitVFSOnly == InitVFS /\ WriteEnvOff /\ AsyncOff /\ HelpersOff /\ TreeOff /\ ImporterOff /\ BundlesOff /\ ImagesOff /\ ProbeOff

SpecVFS == InitVFSOnly /\ [][NextVFS]_vars

\* the write calls on a path of each shape, with what each call found and how
\* it settled
NextWrite ==
    \/ \E w \in Writers, d \in Payloads, app \in BOOLEAN, atm \in BOOLEAN,
          fails \in BOOLEAN, k \in 0..(PayloadLen - 1) :
            writeFile(w, d, app, atm, fails, k) /\ TrackSync(w, d, app, atm)
                /\ UNCHANGED notCalls
    \/ \E w \in Writers, d \in Payloads, app \in BOOLEAN, atm \in BOOLEAN :
            writeFileAsync(w, d, app, atm) /\ TrackStart(w, d, app, atm)
                /\ UNCHANGED notCalls
    \/ \E w \in Writers : existsAsync(w) /\ TrackStep(w) /\ UNCHANGED notCalls
    \/ \E w \in Writers : createDirAsync(w) /\ TrackStep(w) /\ UNCHANGED notCalls
    \/ \E w \in Writers : createEmptyAsync(w) /\ TrackStep(w) /\ UNCHANGED notCalls
    \/ \E w \in Writers : lockAsync(w) /\ TrackStep(w) /\ UNCHANGED notCalls
    \/ \E w \in Writers : openAsync(w) /\ TrackStep(w) /\ UNCHANGED notCalls
    \/ \E w \in Writers : writeChunkAsync(w) /\ TrackStep(w) /\ UNCHANGED notCalls
    \/ \E w \in Writers : writeDoneAsync(w) /\ TrackStep(w) /\ UNCHANGED notCalls
    \/ \E w \in Writers : writeRejectAsync(w) /\ TrackStep(w) /\ UNCHANGED notCalls
    \/ \E w \in Writers : finallyRelease(w) /\ TrackStep(w) /\ UNCHANGED notCalls

InitWriteOnly == InitWrite /\ AsyncOff /\ HelpersOff /\ TreeOff /\ ImporterOff /\ BundlesOff /\ ImagesOff /\ ProbeOff

SpecWrite == InitWriteOnly /\ [][NextWrite]_vars

\* the asynchronous operations of VFS on one directory, with the filesystem
\* access each step makes
NextAsync ==
    \/ \E w \in Writers, d \in Payloads, app \in BOOLEAN, atm \in BOOLEAN :
            writeFileAsync(w, d, app, atm) /\ UNCHANGED lastAccess /\ UNCHANGED notWrite
    \/ \E w \in Writers :
            existsAsync(w) /\ Access("existsAsync", "access", TRUE) /\ UNCHANGED notWrite
    \/ \E w \in Writers :
            createDirAsync(w) /\ Access("createDirAsync", "mkdir", TRUE) /\ UNCHANGED notWrite
    \/ \E w \in Writers :
            createEmptyAsync(w) /\ Access("writeFileAsync", "writeFile", FALSE)
                /\ UNCHANGED notWrite
    \/ \E w \in Writers :
            lockAsync(w) /\ Access("writeFileAsync", "lockSync", FALSE) /\ UNCHANGED notWrite
    \/ \E w \in Writers :
            openAsync(w) /\ Access("writeFileAsync", "writeFile", FALSE) /\ UNCHANGED notWrite
    \/ \E w \in Writers :
            writeChunkAsync(w) /\ Access("writeFileAsync", "writeFile", FALSE)
                /\ UNCHANGED notWrite
    \/ \E w \in Writers : writeDoneAsync(w) /\ UNCHANGED lastAccess /\ UNCHANGED notWrite
    \/ \E w \in Writers : writeRejectAsync(w) /\ UNCHANGED lastAccess /\ UNCHANGED notWrite
    \/ \E w \in Writers :
            finallyRelease(w) /\ Access("writeFileAsync", "unlock", FALSE) /\ UNCHANGED notWrite
    \/ \E x \in OtherNames : copyAsync(x) /\ UNCHANGED notDisk
    \/ copyCommand /\ UNCHANGED notDisk
    \/ readFileAsync /\ UNCHANGED notDisk
    \/ \E x \in OtherNames : removeFileAsync(x) /\ UNCHANGED notDisk
    \/ \E x, y \in OtherNames : renameAsync(x, y) /\ UNCHANGED notDisk
    \/ getFilesAsync /\ UNCHANGED notDisk
    \/ getDirsAsync /\ UNCHANGED notDisk
    \/ statAll /\ UNCHANGED notDisk

InitAsyncOnly == InitVFS /\ WriteEnvOff /\ InitAsync /\ HelpersOff /\ TreeOff /\ ImporterOff /\ BundlesOff /\ ImagesOff /\ ProbeOff

SpecAsync == InitAsyncOnly /\ [][NextAsync]_vars

\* removeDir and removeDirAsync on a tree
NextRemove ==
    \/ callRemoveDir(PathA) /\ UNCHANGED notTree
    \/ removeDirAsync(PathA) /\ UNCHANGED notTree
    \/ \E r \in DOMAIN tasks : removeDirList(r) /\ UNCHANGED notTree
    \/ \E r \in DOMAIN tasks, f \in FileNames : removeDirUnlink(r, f) /\ UNCHANGED notTree
    \/ \E r \in DOMAIN tasks : removeDirRmdir(r) /\ UNCHANGED notTree
    \/ \E r \in DOMAIN tasks : rejectAll(r) /\ UNCHANGED notTree

InitRemoveOnly ==
    InitRemove /\ VFSOff /\ WriteEnvOff /\ AsyncOff /\ HelpersOff /\ ImporterOff /\ BundlesOff /\ ImagesOff /\ ProbeOff

SpecRemove == InitRemoveOnly /\ [][NextRemove]_vars

\* a copy of the tree at a, then possibly a second copy or the removal of the copy
NextCopy ==
    \/ \E dst \in Targets, list \in Lists :
            /\ callCopyDir(PathA, dst, list)
            /\ treeCall.n = 0 => dst \in TargetsFor(fsTree)
            /\ treeCall.n = 1 => (treeCall.name = "copyDir" /\ treeCall.dst = dst
                                     /\ treeCall.list = list)
            /\ UNCHANGED notTree
    \/ \E dst \in Targets, list \in Lists :
            /\ copyDirAsync(PathA, dst, list)
            /\ treeCall.n = 0 => dst \in TargetsFor(fsTree)
            /\ treeCall.n = 1 => (treeCall.name = "copyDirAsync" /\ treeCall.dst = dst
                                     /\ treeCall.list = list)
            /\ UNCHANGED notTree
    \/ \E r \in DOMAIN tasks : copyDirList(r) /\ UNCHANGED notTree
    \/ \E r \in DOMAIN tasks : copyDirExists(r) /\ UNCHANGED notTree
    \/ \E r \in DOMAIN tasks : copyDirMkdir(r) /\ UNCHANGED notTree
    \/ \E r \in DOMAIN tasks, f \in FileNames : copyDirCopy(r, f) /\ UNCHANGED notTree
    \/ \E r \in DOMAIN tasks : allResolved(r) /\ UNCHANGED notTree
    \/ \E r \in DOMAIN tasks : rejectAll(r) /\ UNCHANGED notTree
    \/ treeCall.name = "copyDir" /\ callRemoveDir(treeCall.dst) /\ UNCHANGED notTree
    \/ treeCall.name = "copyDirAsync" /\ removeDirAsync(treeCall.dst) /\ UNCHANGED notTree
    \/ \E r \in DOMAIN tasks : removeDirList(r) /\ UNCHANGED notTree
    \/ \E r \in DOMAIN tasks, f \in FileNames : removeDirUnlink(r, f) /\ UNCHANGED notTree
    \/ \E r \in DOMAIN tasks : removeDirRmdir(r) /\ UNCHANGED notTree

\* one variant of the minification, once or twice
NextMinify ==
    \/ /\ callMinifyAllJsonInDirRecursive(PathA)
       /\ treeCall.n = 1 => treeCall.name = "minifyAllJsonInDirRecursive"
       /\ UNCHANGED notTree
    \/ /\ minifyAllJsonInDirRecursiveAsync(PathA)
       /\ treeCall.n = 1 => treeCall.name = "minifyAllJsonInDirRecursiveAsync"
       /\ UNCHANGED notTree
    \/ \E r \in DOMAIN tasks : minifyList(r) /\ UNCHANGED notTree
    \/ \E r \in DOMAIN tasks, f \in FileNames \cup {JsonChars}, crashes \in BOOLEAN :
            minifyJsonInWorker(r, f, crashes) /\ UNCHANGED notTree
    \/ \E r \in DOMAIN tasks : allResolved(r) /\ UNCHANGED notTree
    \/ \E r \in DOMAIN tasks : rejectAll(r) /\ UNCHANGED notTree

InitMinifyOnly ==
    InitMinify /\ VFSOff /\ WriteEnvOff /\ AsyncOff /\ HelpersOff /\ ImporterOff /\ BundlesOff /\ ImagesOff /\ ProbeOff

SpecMinify == InitMinifyOnly /\ [][NextMinify]_vars

InitCopyOnly ==
    InitCopy /\ VFSOff /\ WriteEnvOff /\ AsyncOff /\ HelpersOff /\ ImporterOff /\ BundlesOff /\ ImagesOff /\ ProbeOff

SpecCopy == InitCopyOnly /\ [][NextCopy]_vars

\* the extension helpers applied to every short name
NextHelpers ==
    \/ callGetFileExtension /\ UNCHANGED notHelpers
    \/ callStripExtension /\ UNCHANGED notHelpers

InitHelpersOnly == InitHelpers /\ VFSOff /\ WriteEnvOff /\ AsyncOff /\ TreeOff /\ ImporterOff /\ BundlesOff /\ ImagesOff /\ ProbeOff

SpecHelpers == InitHelpersOnly /\ [][NextHelpers]_vars

NextImporter ==
    \/ onLoad /\ UNCHANGED notImporter
    \/ loadHashedFile /\ UNCHANGED notImporter
    \/ \E f \in FilePaths, d \in FileData : onReadValidate(f, d) /\ UNCHANGED notImporter
    \/ hydrateDatabase /\ UNCHANGED notImporter
    \/ loadAsyncRejects /\ UNCHANGED notImporter
    \/ loadImagesFromDirectories /\ UNCHANGED notImporter
    \/ getDirsThrows /\ UNCHANGED notImporter

InitImporterOnly == InitImporter /\ VFSOff /\ WriteEnvOff /\ AsyncOff /\ TreeOff /\ HelpersOff /\ BundlesOff /\ ImagesOff /\ ProbeOff

SpecImporter == InitImporterOnly /\ [][NextImporter]_vars

\* an importer whose onLoad is called more than once
NextImporterRerun ==
    \/ onLoad /\ UNCHANGED notImporter
    \/ loadHashedFile /\ UNCHANGED notImporter
    \/ \E f \in FilePaths, d \in FileData : onReadValidate(f, d) /\ UNCHANGED notImporter
    \/ hydrateDatabase /\ UNCHANGED notImporter
    \/ loadAsyncRejects /\ UNCHANGED notImporter
    \/ loadImagesFromDirectories /\ UNCHANGED notImporter
    \/ getDirsThrows /\ UNCHANGED notImporter
    \/ onLoadAgain /\ UNCHANGED notImporter

SpecImporterRerun == InitImporterOnly /\ [][NextImporterRerun]_vars

\* a run in which the external loader and the image directory listing succeed;
\* every pending promise of onLoad eventually settles
NextImporterHealthy ==
    \/ onLoad /\ UNCHANGED notImporter
    \/ loadHashedFile /\ UNCHANGED notImporter
    \/ \E f \in FilePaths, d \in FileData : onReadValidate(f, d) /\ UNCHANGED notImporter
    \/ hydrateDatabase /\ UNCHANGED notImporter
    \/ loadImagesFromDirectories /\ UNCHANGED notImporter

\* the loader hands one of the pending files to the hook
LoaderHandsFile ==
    \E f \in pending : phase = "hydrate" /\ pending' = pending \ {f}

SpecImporterHealthy ==
    /\ InitImporterOnly /\ [][NextImporterHealthy]_vars
    /\ WF_vars(loadHashedFile /\ UNCHANGED notImporter)
    /\ WF_pending(LoaderHandsFile)
    /\ WF_vars(hydrateDatabase /\ UNCHANGED notImporter)
    /\ WF_vars(loadImagesFromDirectories /\ UNCHANGED notImporter)

\* the registry and the hash cache while bundle files change on disk
NextBundles ==
    \/ \E m \in Mods : addBundles(m) /\ UNCHANGED notBundles
    \/ \E k \in Keys, m \in Mods, c \in CallerHashes :
            addBundle(k, m, c) /\ UNCHANGED notBundles
    \/ \E p \in BundlePaths, b \in Bytes : modifyBundleFile(p, b) /\ UNCHANGED notBundles

InitBundlesOnly ==
    InitBundles /\ VFSOff /\ WriteEnvOff /\ AsyncOff /\ HelpersOff /\ TreeOff /\ ImporterOff
        /\ ImagesOff /\ ProbeOff

notImages == <<vfsVars, writeEnv, asyncVars, treeVars, helperVars, importerVars, bundleVars, probeVars>>

\* the image routes of one run
NextImages ==
    \/ listImageDirs /\ UNCHANGED notImages
    \/ registerImageDir /\ UNCHANGED notImages
    \/ registerFavicon /\ UNCHANGED notImages

InitImagesOnly ==
    InitImages /\ VFSOff /\ WriteEnvOff /\ AsyncOff /\ HelpersOff /\ TreeOff /\ ImporterOff
        /\ BundlesOff /\ ProbeOff

SpecImages == InitImagesOnly /\ [][NextImages]_vars

SpecBundles == InitBundlesOnly /\ [][NextBundles]_vars

\* the registry and the callers that read it
NextRegistry ==
    \/ \E m \in Mods : addBundles(m) /\ UNCHANGED notBundles
    \/ \E k \in Keys, m \in Mods, c \in CallerHashes :
            addBundle(k, m, c) /\ UNCHANGED notBundles
    \/ \E k \in Keys : getBundle(k) /\ UNCHANGED notBundles
    \/ getBundles /\ UNCHANGED notBundles
    \/ \E r \in Addrs, kind \in MutationKinds : mutateReturned(r, kind) /\ UNCHANGED notBundles
    \/ \E r \in Addrs : dropReturned(r) /\ UNCHANGED notBundles

SpecRegistry == InitBundlesOnly /\ [][NextRegistry]_vars

\* manifest ingestion with bundle files that go missing and come back (0 stands
\* for a file that is not there, 1 for its contents), direct inserts and getBundles
NextIngest ==
    \/ \E m \in Mods : addBundles(m) /\ UNCHANGED notBundles
    \/ \E k \in Keys, m \in Mods, c \in CallerHashes :
            addBundle(k, m, c) /\ UNCHANGED notBundles
    \/ \E p \in BundlePaths, b \in {0, 1} : modifyBundleFile(p, b) /\ UNCHANGED notBundles
    \/ getBundles /\ UNCHANGED notBundles
    \/ \E r \in Addrs : dropReturned(r) /\ UNCHANGED notBundles

SpecIngest == InitBundlesOnly /\ [][NextIngest]_vars

\* callers that keep the BundleInfo they passed to addBundle
NextOwner ==
    \/ \E k \in Keys, m \in Mods, c \in CallerHashes :
            addBundleKeepingReference(k, m, c) /\ UNCHANGED notBundles
    \/ \E k \in Keys : getBundle(k) /\ UNCHANGED notBundles
    \/ getBundles /\ UNCHANGED notBundles
    \/ \E r \in Addrs, kind \in MutationKinds : mutateReturned(r, kind) /\ UNCHANGED notBundles
    \/ \E r \in Addrs : dropReturned(r) /\ UNCHANGED notBundles

SpecOwner == InitBundlesOnly /\ [][NextOwner]_vars

notProbe == <<vfsVars, writeEnv, asyncVars, treeVars, helperVars, importerVars, bundleVars,
              imageVars>>

\* existsAsync calls, one after the other
NextProbe ==
    \/ \E at \in PathStates, qs \in QueueStates : callExistsAsync(at, qs) /\ UNCHANGED notProbe
    \/ settleExistsAsync /\ UNCHANGED notProbe

InitProbeOnly ==
    InitProbe /\ VFSOff /\ WriteEnvOff /\ AsyncOff /\ HelpersOff /\ TreeOff /\ ImporterOff
        /\ BundlesOff /\ ImagesOff

SpecProbe == InitProbeOnly /\ [][NextProbe]_vars

\* ------------------------------------------------------------------------
\* Properties of the write calls
\* ------------------------------------------------------------------------

AllIdle == \A w \in Writers : pc[w] = "idle"

\* the call is between its lockFileSync and its release()
InLockedSection(w) == pc[w] \in {"open", "write", "finally"}

\* C1: when every write to the path is atomic (atomic = true, append = false)
\* and none threw an IO error, a reader never observes a partial file (it reads a submitted payload or the
\* content from before the writes), and once all writers have finished the
\* file holds exactly one of the submitted payloads.
C1_AtomicWriteNeverPartial ==
    (onlyAtomic /\ ~ioFailed) =>
        /\ observed.status = "ok" => observed.bytes \in submitted \cup {OldContent}
        /\ (AllIdle /\ \E w \in Writers : result[w] = "ok") => content \in submitted

\* C2: a call that acquired the lock releases it exactly once on every exit
\* path (write succeeded or threw); the lock is held exactly by a call inside
\* its locked section, so with no write in flight the lock is free and the next
\* lockFileSync cannot fail on contention.
C2_LockReleasedExactlyOnce ==
    /\ \A w \in Writers :
        /\ acquired[w] \in {0, 1}
        /\ released[w] = IF InLockedSection(w) THEN 0 ELSE acquired[w]
        /\ (lockHolder = w) <=> InLockedSection(w)
        /\ result[w] \in {"ok", "EIO"} => acquired[w] = 1 /\ released[w] = 1
    /\ AllIdle => lockHolder = 0 /\ lockFileSync(lockHolder)

\* C2 witness: one call threw inside the try block and released, and another
\* call on the same path then acquired the lock and completed.
C2_Witness ==
    /\ AllIdle
    /\ \E w, v \in Writers :
        /\ w # v
        /\ result[w] = "EIO" /\ released[w] = 1
        /\ result[v] = "ok" /\ acquired[v] = 1 /\ released[v] = 1

\* C3: while a call holds the lock of the path, no step of another write call
\* changes the file (every modification, the creation of the empty file
\* included, is made by the lock holder).
C3_NoInterleavedWrites ==
    [][\A w \in Writers :
         (lockHolder = w /\ lockHolder' = w /\ pc'[w] = pc[w] /\ written'[w] = written[w])
            => content' = content /\ fileExists' = fileExists]_vars

\* the file holds what the lock holder has written so far (a holder whose
\* write has not thrown)
HolderContentIntact(h) ==
    LET done == SubSeq(data[h], 1, written[h])
    IN  (pc[h] \in {"write", "finally"} /\ ~err[h]) =>
            IF OpenFlag(append[h], atomic[h]) = "w"
            THEN content = done
            ELSE /\ Len(content) >= Len(done)
                 /\ SubSeq(content, Len(content) - Len(done) + 1, Len(content)) = done

\* the step in which call w runs lockFileSync while another call holds the lock
ContentionStep(w) ==
    /\ lockHolder \notin {0, w}
    /\ \/ pc[w] = "lock" /\ pc'[w] # "lock"
       \/ pc[w] = "idle" /\ pc'[w] = "idle" /\ calls' # calls

\* C4: a call that finds the lock held by another in-flight write fails with
\* ELOCKED (no retry: the call is over), does not release the holder's lock,
\* and leaves the file as the lock holder writes it.
C4_ContentionFailsWithoutOverwrite ==
    [][\A w \in Writers :
         ContentionStep(w) =>
            /\ result'[w] = "ELOCKED" /\ pc'[w] = "idle"
            /\ lockHolder' = lockHolder /\ released'[w] = 0
            /\ content' = content
            /\ HolderContentIntact(lockHolder)]_vars

\* what a write that ran by itself to completion leaves in the file
ExpectedContent(call) ==
    IF call.app
    THEN (IF call.existed THEN call.before ELSE <<>>) \o call.d
    ELSE call.d

\* C30: a write with append=true (atomic or not) leaves the file holding its
\* previous content followed by the data, or just the data if the file did not
\* exist; a write with append=false leaves the file holding exactly the data.
C30_AppendAddsTruncateReplaces ==
    (lastDone.outcome = "ok" /\ lastDone.call.alone) =>
        /\ fileExists
        /\ content = ExpectedContent(lastDone.call)

\* an appending write to an existing file, atomic flag set, has just succeeded
C30_Witness ==
    /\ lastDone.outcome = "ok" /\ lastDone.call.alone
    /\ lastDone.call.app /\ lastDone.call.atm /\ lastDone.call.existed
    /\ content = OldContent \o lastDone.call.d
    /\ calls = 2

\* C29: a write to a path whose file is missing and whose parent directories
\* do not all exist, or which has no directory separator (parent = working
\* directory), creates what is missing and writes: the call succeeds (IO errors
\* of the write itself apart) and afterwards the file exists holding the data.
C29_WriteCreatesMissingParents ==
    ( /\ lastDone.w # 0
      /\ lastDone.call.alone
      /\ ~lastDone.call.existed
      /\ ~lastDone.call.parentExisted \/ LastIndexOfSlash(filepath) = -1
      /\ lastDone.outcome # "EIO" ) =>
        /\ lastDone.outcome = "ok"
        /\ fileExists
        /\ content = lastDone.call.d

\* C20: every filesystem access an asynchronous VFS operation makes (existsAsync,
\* copyAsync, createDirAsync, readFileAsync, writeFileAsync, getFilesAsync,
\* getDirsAsync, removeFileAsync, renameAsync) is made inside a command
\* submitted to the command queue.
C20_AsyncAccessOnlyThroughQueue ==
    lastAccess.fn # "none" => lastAccess.queued

\* ------------------------------------------------------------------------
\* Properties of the recursive directory operations
\* ------------------------------------------------------------------------

\* the i-th call of the trace was made after a removal of every entry that was
\* beneath its path when the operation started
RemovedBefore(i) ==
    \A q \in Beneath(fsTree0, trace[i].path) :
        \E j \in 1..(i - 1) : trace[j].path = q /\ trace[j].fn \in {"unlink", "rmdir"}

\* C22: removeDir and removeDirAsync remove a directory only after every file
\* and every subdirectory beneath it has been removed; in the async variant,
\* whatever the order in which the parallel removals of the siblings run, rmdir
\* is only ever called on a directory with nothing left beneath it.
C22_ChildrenRemovedBeforeParent ==
    /\ treeCall.name = "removeDir" =>
         \A i \in 1..Len(trace) : trace[i].fn = "rmdir" => RemovedBefore(i)
    /\ (treeCall.name = "removeDirAsync" /\ lastOp.fn = "rmdir") =>
         Beneath(fsTree, lastOp.path) = {}
    /\ treeCall.name \in {"removeDir", "removeDirAsync"} =>
         \A q \in DOMAIN fsTree0 \ DOMAIN fsTree : Beneath(fsTree, q) = {}

\* removeDirAsync has just removed a whole tree: files and a subdirectory with files
C22_Witness ==
    /\ treeCall.name = "removeDirAsync"
    /\ settled = "ok"
    /\ lastOp = Op("rmdir", PathA, <<>>)
    /\ Cardinality(DOMAIN fsTree0) = 6
    /\ fsTree = EmptyFs

IsPrefix(p, q) == Len(p) <= Len(q) /\ SubSeq(q, 1, Len(p)) = p

IsCopy == treeCall.name \in {"copyDir", "copyDirAsync"}

\* the path existed when the operation started, or an earlier call of the trace
\* created it
ExistedAt(i, p) ==
    \/ Exists(fsTree0, p)
    \/ \E j \in 1..(i - 1) : trace[j].fn = "mkdir" /\ IsPrefix(p, trace[j].path)

\* where the copy puts the entry q of the source
Dest(q) == treeCall.dst \o SubSeq(q, Len(treeCall.src) + 1, Len(q))

\* the entries of the source when the copy started
SourceEntries == {treeCall.src} \cup Beneath(fsTree0, treeCall.src)

\* the copy takes the file named by the last name of q
Taken(q) == NoFilter(treeCall.list) \/ getFileExtension(q[Len(q)]) \in treeCall.list.exts

\* no directory of the source finds a file under its name at the destination
NoFileInTheWay ==
    \A q \in SourceEntries :
        (fsTree0[q].kind = "dir" /\ Exists(fsTree0, Dest(q))) => IsDir(fsTree0, Dest(q))

SettledAs(st) == IF st.err = "" THEN "ok" ELSE st.err

\* C21: a recursive async operation that has wound up, run alone on a
\* filesystem, has settled as its blocking counterpart ends on the same
\* filesystem with the same arguments (resolved, or rejected with the same
\* error) and has left the same filesystem behind: copyDirAsync as copyDir,
\* removeDirAsync as removeDir.
C21_AsyncAsBlocking ==
    /\ (treeCall.name = "copyDirAsync" /\ Quiescent) =>
          LET st == copyDir(Run(fsTree0), treeCall.src, treeCall.dst, treeCall.list)
          IN  settled = SettledAs(st) /\ fsTree = st.tree
    /\ (treeCall.name = "removeDirAsync" /\ Quiescent) =>
          LET st == removeDir(Run(fsTree0), treeCall.src)
          IN  settled = SettledAs(st) /\ fsTree = st.tree

\* the files at every depth below p that the minification takes for JSON
JsonFilesBeneath(t, p) ==
    { q \in Beneath(t, p) : IsFile(t, q) /\ getFileExtension(q[Len(q)]) = JsonChars }

\* the worker of the file at q has come to this event
Reported(event, q) == \E i \in 1..Len(trace) : trace[i] = Op(event, q, <<>>)

WorkerFailed == \E i \in 1..Len(trace) : trace[i].fn \in {"error", "exit"}

\* C26: in a call of minifyAllJsonInDirRecursiveAsync, once the worker of any
\* file at any depth has failed (an exception in the parse or the write, or a
\* non-zero exit) the call never resolves, and when it has wound up it has
\* rejected; a call that has resolved has had the "done" message of the worker
\* of every .json file of every directory of the tree.
C26_WorkerFailureRejectsBatch ==
    treeCall.name = "minifyAllJsonInDirRecursiveAsync" =>
        /\ WorkerFailed => settled # "ok"
        /\ (WorkerFailed /\ Quiescent) => settled \in {"SyntaxError", "EPERM", "EXIT"}
        /\ settled = "ok" =>
              \A q \in JsonFilesBeneath(fsTree0, treeCall.src) : Reported("message", q)

\* the worker of the file in the subdirectory exited with a non-zero code, the
\* worker of the file next to it reported completion, and the call rejected
C26_Witness ==
    /\ treeCall.name = "minifyAllJsonInDirRecursiveAsync"
    /\ Quiescent
    /\ settled = "EXIT"
    /\ Reported("exit", Join(Join(PathA, DirS), JsonFile))
    /\ Reported("message", Join(PathA, JsonFile))

\* the name ends in ".json"
EndsInDotJson(n) == Len(n) >= 5 /\ SubSeq(n, Len(n) - 4, Len(n)) = <<".">> \o JsonChars

\* C37: during and after a call of minifyAllJsonInDirRecursive or
\* minifyAllJsonInDirRecursiveAsync the tree has the files and directories it
\* had before the call, and every file whose name does not end in ".json" (a
\* file whose whole name is "json" among them) holds what it held before.
C37_OnlyDotJsonFilesModified ==
    treeCall.name \in {"minifyAllJsonInDirRecursive", "minifyAllJsonInDirRecursiveAsync"} =>
        /\ DOMAIN fsTree = DOMAIN fsTree0
        /\ \A q \in DOMAIN fsTree0 :
              ~EndsInDotJson(q[Len(q)]) => fsTree[q] = fsTree0[q]

\* a text JSON.parse accepts that holds no whitespace
Minimal(s) == parse(s).ok /\ \A i \in 1..Len(s) : s[i] # " "

\* C27: when minifyAllJsonInDirRecursive or minifyAllJsonInDirRecursiveAsync
\* has succeeded on a tree, every .json file at every depth holds a text
\* without whitespace whose value is the value the file held before; and a
\* second run of the minification leaves the whole filesystem as the first
\* run left it.
C27_MinifiedAndStable ==
    treeCall.name \in {"minifyAllJsonInDirRecursive", "minifyAllJsonInDirRecursiveAsync"} =>
        /\ (Quiescent /\ settled = "ok") =>
              \A q \in JsonFilesBeneath(fsTree0, treeCall.src) :
                  /\ IsFile(fsTree, q)
                  /\ Minimal(fsTree[q].bytes)
                  /\ parse(fsTree[q].bytes) = parse(fsTree0[q].bytes)
        /\ treeCall.n = 2 => fsTree = treeCall.prev.after

\* the async minification has run twice on a tree with an indented number and,
\* one level down, an array with a blank in it
C27_Witness ==
    /\ treeCall.name = "minifyAllJsonInDirRecursiveAsync"
    /\ treeCall.n = 2
    /\ Quiescent /\ settled = "ok"
    /\ Join(Join(PathA, DirS), JsonFile) \in DOMAIN fsTree
    /\ Join(PathA, JsonFile) \in DOMAIN fsTree
    /\ treeCall.prev.before[Join(PathA, JsonFile)].bytes = <<" ", "1">>
    /\ treeCall.prev.before[Join(Join(PathA, DirS), JsonFile)].bytes = <<"[", " ", "]">>
    /\ fsTree[Join(PathA, JsonFile)].bytes = <<"1">>
    /\ fsTree[Join(Join(PathA, DirS), JsonFile)].bytes = <<"[", "]">>

\* what the filesystem holds beneath p
SubTree(t, p) == [q \in Beneath(t, p) |-> t[q]]

\* C24: when B does not exist before the copy, copyDir(A, B) followed by
\* removeDir(B) leaves the filesystem exactly as it was before the copy, and a
\* second copyDir(A, B) leaves B with the content the first one gave it; the
\* same for copyDirAsync and removeDirAsync.
C24_CopyRemoveRestoresAndCopyRepeats ==
    /\ ( /\ treeCall.n = 2
         /\ treeCall.name \in {"removeDir", "removeDirAsync"}
         /\ Quiescent
         /\ ~Exists(treeCall.prev.before, treeCall.prev.dst) ) =>
            /\ settled = "ok"
            /\ fsTree = treeCall.prev.before
    /\ ( /\ treeCall.n = 2
         /\ IsCopy
         /\ Quiescent
         /\ ~Exists(treeCall.prev.before, treeCall.dst) ) =>
            /\ settled = "ok"
            /\ SubTree(fsTree, treeCall.dst) = SubTree(treeCall.prev.after, treeCall.dst)

HasDot(str) == \E i \in 1..Len(str) : str[i] = "."

\* position of the final "." of a string that has one
FinalDot(str) == CHOOSE i \in 1..Len(str) :
    /\ str[i] = "."
    /\ \A j \in (i + 1)..Len(str) : str[j] # "."

RelativeSegments(path) ==
    LET rel == IF Len(path) > 0 /\ Head(path) = RootTok THEN Tail(path) ELSE path
        segs == Split(rel)
        last == segs[Len(segs)]
    IN  [segs EXCEPT ![Len(segs)] =
            IF Len(last) > 0 /\ last[Len(last)] \in ExtToks
            THEN SubSeq(last, 1, Len(last) - 1) ELSE last]

\* the value reached from the root of the tree after the first i segments
RECURSIVE NodeAt(_, _, _)
NodeAt(tree, segs, i) ==
    IF i = 0 THEN tree
    ELSE LET parent == NodeAt(tree, segs, i - 1)
         IN  IF parent.kind = "object" /\ segs[i] \in DOMAIN parent.kids
             THEN parent.kids[segs[i]] ELSE Undefined

LeafMatches(tree, path, bytes) ==
    LET segs == RelativeSegments(path)
        leaf == NodeAt(tree, segs, Len(segs))
    IN  /\ leaf.kind = "string"
        /\ ~generateSha1Throws(bytes)
        /\ leaf.value = generateSha1ForData(bytes)

\* C5: with a manifest loaded in verified mode, validateFile returns true
\* exactly when the walk along the relative path's segments (extension
\* stripped) ends on a string leaf at the last segment that equals the SHA-1 of
\* the data; every other outcome (missing segment, early leaf, subtree at the
\* last segment, digest mismatch, exception caught while hashing) makes the
\* hook set FAILED.
C5_ValidateFileIffLeafMatches ==
    hooked.called =>
        /\ releaseConfig /\ Truthy(hashedFile)
        /\ hooked.valid <=> LeafMatches(hashedFile, hooked.path, hooked.data)
        /\ hooked.outcome \in {"notfound", "early", "object", "mismatch", "exception"}
                <=> ~hooked.valid
        /\ ~hooked.valid => validationStatus = "FAILED"

\* C5 witness: the file a/b.min.json validated against its leaf after an
\* earlier file had failed.
C5_Witness ==
    /\ hooked.called /\ hooked.valid
    /\ hooked.path = <<RootTok, "a", Sep, "b", ".min", JsonExt>>
    /\ validationStatus = "FAILED"

\* C6: in a verified-mode run whose checks file is absent, the status is
\* NOT_FOUND from loadHashedFile to the end of the run: validateFile is never
\* called for the files handed to the hook, and hydration goes on (the tables
\* are set once the loader is done).
C6_AbsentChecksFileStaysNotFound ==
    (releaseConfig /\ checksFile.kind = "absent" /\ phase \notin {"new", "loadHashedFile"})
        => /\ validationStatus = "NOT_FOUND"
           /\ ~hooked.called
           /\ phase \in {"images", "done"} => tablesSet

\* C6 witness: such a run finished after the loader handed files to the hook.
C6_Witness ==
    /\ releaseConfig /\ checksFile.kind = "absent"
    /\ phase = "done" /\ seen = MaxFiles /\ validationStatus = "NOT_FOUND"

\* C7: once the status is FAILED it is FAILED in every later state of the run.
C7_FailedIsMonotonic ==
    [][validationStatus = "FAILED" => validationStatus' = "FAILED"]_vars

\* C7 witness: a run that failed a file, then validated another one
\* successfully, and finished with the status still FAILED.
C7_Witness ==
    /\ phase = "done" /\ validationStatus = "FAILED"
    /\ hooked.called /\ hooked.outcome = "ok" /\ seen = MaxFiles

\* the order of the phases of onLoad
PhaseOrder ==
    { <<"new", "loadHashedFile">>, <<"loadHashedFile", "hydrate">>,
      <<"hydrate", "images">>, <<"images", "done">>,
      <<"hydrate", "rejected">>, <<"images", "rejected">> }

\* C13: onLoad goes through load-manifest, hydrate-tree, register-images in
\* that order, each after the previous one completed: the hook is called only
\* once loadHashedFile has finished, the tables are set only after the loader
\* has handed over every file, and the image routes are registered only after
\* the tables are set.
C13_PhasesInOrder ==
    /\ [](/\ (seen > 0 \/ hooked.called) => phase \in {"hydrate", "images", "done", "rejected"}
          /\ tablesSet => (phase \in {"images", "done", "rejected"} /\ pending = {})
          /\ imagesLoaded => (tablesSet /\ phase = "done"))
    /\ [][phase' # phase => <<phase, phase'>> \in PhaseOrder]_vars

\* C13 witness: a verified run that validated files, set the tables and
\* registered the images.
C13_Witness ==
    /\ phase = "done" /\ hooked.called /\ seen = MaxFiles
    /\ tablesSet /\ imagesLoaded /\ pending = {}

\* C14: when the loader and the image listing succeed, a started onLoad
\* completes with the tables set and the image routes registered, whatever
\* the manifest (absent, unparsable, loaded) and whatever the validation
\* results (an exception caught inside validateFile included).
C14_ValidationNeverStopsHydration ==
    (phase = "loadHashedFile") ~> (phase = "done" /\ tablesSet /\ imagesLoaded /\ failure = "")

\* C14 witness: a run completed although validateFile caught an exception.
C14_Witness ==
    /\ phase = "done" /\ tablesSet /\ imagesLoaded
    /\ hooked.called /\ hooked.outcome = "exception" /\ validationStatus = "FAILED"

\* C15: when the external loader fails, onLoad rejects with that failure:
\* setTables is not called and no image route is registered in that run.
C15_LoaderFailureRejects ==
    failure = "loadAsync" => (phase = "rejected" /\ ~tablesSet /\ ~imagesLoaded)

\* C15 witness: the loader failed after it had handed files to the hook.
C15_Witness ==
    /\ failure = "loadAsync" /\ phase = "rejected" /\ seen > 0 /\ pending # {}

\* the status a run must end with, from the manifest and the set of files alone
FinalStatus ==
    IF ~releaseConfig THEN "UNDEFINED"
    ELSE IF checksFile.kind = "absent" THEN "NOT_FOUND"
    ELSE IF checksFile.kind = "corrupt" THEN "FAILED"
    ELSE IF \E f \in DOMAIN files : ~LeafMatches(checksFile.tree, f, files[f]) THEN "FAILED"
    ELSE "UNDEFINED"

\* C16: for a fixed manifest and a fixed set of files, the status at the end
\* of hydration is the same whatever the order in which the loader handed the
\* files to the hook (it is a function of the manifest and the set of files).
C16_OrderDoesNotMatter ==
    (phase \in {"images", "done"} /\ failure = "") => validationStatus = FinalStatus

\* C16 witness: a run over a valid and an invalid file ended FAILED with the
\* valid file handed over last.
C16_Witness ==
    /\ phase = "done" /\ releaseConfig /\ checksFile.kind = "tree"
    /\ Cardinality(DOMAIN files) >= 2
    /\ \E f \in DOMAIN files : LeafMatches(checksFile.tree, f, files[f])
    /\ hooked.called /\ hooked.valid
    /\ validationStatus = "FAILED"

\* C17: in verified mode a checks file that is present but cannot be decoded
\* sets the status to FAILED and leaves no manifest in effect: the hook never
\* validates a file, hydration is not stopped by it, and the status is still
\* FAILED when the tables are set and at the end of the run.
C17_CorruptChecksFileFails ==
    (releaseConfig /\ checksFile.kind = "corrupt" /\ phase \notin {"new", "loadHashedFile"})
        => /\ validationStatus = "FAILED"
           /\ hashedFile = Undefined
           /\ ~hooked.called
           /\ failure \in {"", "loadAsync", "getDirs"}
           /\ phase \in {"images", "done"} => tablesSet

\* C17 witness: such a run completed after the loader handed over its files.
C17_Witness ==
    /\ releaseConfig /\ checksFile.kind = "corrupt"
    /\ phase = "done" /\ seen = MaxFiles /\ tablesSet /\ validationStatus = "FAILED"

\* C18: every run (every onLoad call, a repeated call on the same importer
\* included) begins with the status UNDEFINED.
C18_EveryRunStartsUndefined ==
    [][(phase' = "loadHashedFile" /\ phase # "loadHashedFile")
          => validationStatus' = "UNDEFINED"]_vars

\* addRoute(key, path) was called
Registered(key, path) == \E j \in 1..Len(routes) : routes[j] = [key |-> key, path |-> path]

\* the path the configuration gives for a literal image path
ConfiguredPath(literal) ==
    IF literal \in DOMAIN serverImagePathOverride THEN serverImagePathOverride[literal]
    ELSE literal

\* C33: when loadImagesFromDirectories has completed, for every subdirectory
\* at an index i that has a route prefix and every file f in it, addRoute was
\* called with the key IMAGE_ROUTES[i] followed by stripExtension(f) and with
\* the configured override of the literal path images/<dir>/<f> if there is
\* one, else with the literal path; the last addRoute call is the one for
\* /favicon.ico, and no favicon route is added before the subdirectories are
\* processed.
C33_ImagesRegisteredUnderPrefix ==
    /\ imagePc = "done" =>
          /\ \A i \in 1..Len(imageDirs) : i <= Len(IMAGE_ROUTES) =>
                \A k \in 1..Len(imageFiles[imageDirs[i]]) :
                    LET f == imageFiles[imageDirs[i]][k]
                    IN  Registered(<<IMAGE_ROUTES[i]>> \o stripExtension(f),
                                   ConfiguredPath(imageFilePath \o <<imageDirs[i], "/">> \o f))
          /\ routes # <<>>
          /\ routes[Len(routes)] = [key |-> FaviconKey, path |-> FaviconPath]
    /\ imagePc # "done" => \A j \in 1..Len(routes) : routes[j].key # FaviconKey

\* a run over seven subdirectories of three files each has completed, the
\* first file registered with its configured override
C33_Witness ==
    /\ imagePc = "done"
    /\ Len(imageDirs) = 7
    /\ Len(routes) = 22
    /\ routes[1] = [key |-> <<"/files/achievement/", "a">>,
                    path |-> <<"custom", "/", "a", ".", "p">>]
    /\ routes[21].key = <<"/files/trader/avatar/">>

\* C35: every key addRoute was called with is /favicon.ico or begins with one
\* of the seven prefixes of IMAGE_ROUTES, however many subdirectories the
\* images root has.
C35_RouteKeysHavePrefix ==
    \A j \in 1..Len(routes) :
        \/ routes[j].key = FaviconKey
        \/ routes[j].key[1] \in Range(IMAGE_ROUTES)

\* C34: the status is never SUCCESS: in every state it is UNDEFINED, FAILED or
\* NOT_FOUND; and a verified-mode run that decoded its manifest and whose
\* files all passed validateFile has ended with the status UNDEFINED.
C34_SuccessNeverAssigned ==
    /\ validationStatus \in {"UNDEFINED", "FAILED", "NOT_FOUND"}
    /\ ( /\ phase = "done"
         /\ releaseConfig
         /\ Truthy(hashedFile)
         /\ \A f \in DOMAIN files : validateFile(hashedFile, f, files[f]) ) =>
            validationStatus = "UNDEFINED"

\* a verified-mode run over two files that both validate has completed
C34_Witness ==
    /\ phase = "done"
    /\ releaseConfig
    /\ hashedFile = TreeFull
    /\ Cardinality(DOMAIN files) = 2 /\ seen = 2
    /\ hooked.called /\ hooked.valid
    /\ \A f \in DOMAIN files : validateFile(hashedFile, f, files[f])
    /\ validationStatus = "UNDEFINED"

\* C19: with verified mode off no manifest is loaded and the hook is inactive:
\* the status is UNDEFINED in every state of the run, whether or not a checks
\* file exists and whatever the files hold.
C19_UnverifiedStaysUndefined ==
    ~releaseConfig =>
        /\ validationStatus = "UNDEFINED"
        /\ hashedFile = Undefined
        /\ ~hooked.called

\* C19 witness: an unverified run completed over files that the checks file
\* on disk does not match.
C19_Witness ==
    /\ ~releaseConfig /\ checksFile.kind = "tree"
    /\ phase = "done" /\ seen = MaxFiles
    /\ \E f \in DOMAIN files : ~LeafMatches(checksFile.tree, f, files[f])

\* ------------------------------------------------------------------------
\* Properties of the bundle registry
\* ------------------------------------------------------------------------

\* C8: when the bytes of a bundle are the same at two consecutive addBundles
\* calls, the second call does not store the hash (so the hash is computed
\* and persisted at most once over both calls); and a call stores the hash of
\* a path only when the cache's match check failed for it.
C8_HashStoredAtMostOnce ==
    /\ [](\A p \in BundlePaths :
            (lastHashed[p].prevBytes # 0 /\ lastHashed[p].prevBytes = lastHashed[p].bytes)
                => ~lastHashed[p].stored)
    /\ [][\A p \in BundlePaths :
            (lastHashed'[p] # lastHashed[p] /\ lastHashed'[p].stored)
                => ~calculateAndMatchHash(bundleHashes, p)]_vars

\* C8 witness: a path registered by two calls with the same bytes, the
\* second one reusing the cached hash.
C8_Witness ==
    \E p \in BundlePaths :
        /\ lastHashed[p].prevBytes = lastHashed[p].bytes /\ lastHashed[p].bytes # 0
        /\ ~lastHashed[p].stored
        /\ bundleHashes[p] = Crc(bundleFiles[p])

\* the registry entry of the key is the one addBundles(m) registered
RegisteredFrom(m, key) ==
    bundles[key] # 0 /\ heap[bundles[key]].modpath = NormalizedModPath(m)

\* C9: when the bytes of a bundle differ between two consecutive addBundles
\* calls of its mod, the second call stores the recomputed hash, and the hash
\* it registers is the persisted one and differs from the hash the first call
\* registered.
C9_ChangedBundleGetsNewHash ==
    \A m \in Mods : \A i \in 1..Len(Manifest(m)) :
        LET key == Manifest(m)[i].key
            h == lastHashed[BundlePath(m, key)]
        IN  (h.prevBytes # 0 /\ h.prevBytes # h.bytes) =>
                /\ h.stored
                /\ h.crc # h.prevCrc
                /\ h.crc = Crc(h.bytes)
                /\ bundleHashes[BundlePath(m, key)] = h.crc
                /\ (RegisteredFrom(m, key) /\ key \notin direct)
                        => heap[bundles[key]].crc = h.crc

\* C9 witness: a bundle registered twice with different bytes, the registry
\* carrying the second hash.
C9_Witness ==
    \E m \in Mods : \E i \in 1..Len(Manifest(m)) :
        LET key == Manifest(m)[i].key
            h == lastHashed[BundlePath(m, key)]
        IN  /\ h.prevBytes # 0 /\ h.prevBytes # h.bytes
            /\ RegisteredFrom(m, key) /\ key \notin direct
            /\ heap[bundles[key]].crc = h.crc /\ h.crc # h.prevCrc

\* C10: a caller's mutation of a value it got from getBundle/getBundles
\* (a field, or the dependencies list) leaves what the registry returns
\* unchanged.
C10_ReturnedValuesAreCopies ==
    [][(\E r \in Addrs, kind \in MutationKinds : mutateReturned(r, kind))
          => RegistryView' = RegistryView]_vars

\* C10 witness: a returned value that was mutated and now differs from the
\* registry's entry for the same key.
C10_Witness ==
    \E r \in returned, k \in Keys :
        /\ bundles[k] # 0 /\ heap[r].filename = k
        /\ heap[r].crc = -1
        /\ "mutated" \in {heap[heap[r].dependencies].items[i] :
                            i \in 1..Len(heap[heap[r].dependencies].items)}
        /\ heap[bundles[k]].crc # -1
        /\ ValueOf(heap, bundles[k]).dependencies
              = IF k = "k1" THEN <<"k2">> ELSE <<>>

\* the cells of a BundleInfo: the object and its dependencies array
CellsOf(h, a) == {a, h[a].dependencies}

\* the value at address a shares no cell with the registry or with another
\* value a caller holds
SharesNothing(h, reg, ret, a) ==
    \A b \in ({reg[k] : k \in Keys} \cup ret) \ {0, a} :
        CellsOf(h, a) \cap CellsOf(h, b) = {}

\* C11: getBundle(key) for a key never inserted fails with the not-found
\* error and changes nothing in the registry; for an inserted key it returns
\* a new object, sharing nothing with the registry, whose value equals the
\* BundleInfo most recently inserted for the key, and the registry is unchanged.
C11_GetBundleThrowsOrCopies ==
    [][lastGet'.outcome # "none" =>
        LET key == lastGet'.key
        IN  /\ RegistryView' = RegistryView
            /\ IF inserted[key] = <<>>
               THEN /\ lastGet'.outcome = "not found"
                    /\ returned' = returned
               ELSE /\ lastGet'.outcome = "returned"
                    /\ lastGet'.addr \in returned'
                    /\ Cardinality(returned') = Cardinality(returned) + 1
                    /\ ValueOf(heap', lastGet'.addr) = inserted[key][1]
                    /\ SharesNothing(heap', bundles', returned', lastGet'.addr)]_vars

\* C11 witness: a key registered from the manifest and then overwritten by a
\* direct insert; getBundle has just returned the directly inserted value.
C11_Witness ==
    /\ lastGet.outcome = "returned"
    /\ lastGet.key \in direct
    /\ \E m \in Mods : lastHashed[BundlePath(m, lastGet.key)].bytes # 0
    /\ heap[lastGet.addr].crc = 7
    /\ ValueOf(heap, lastGet.addr) = inserted[lastGet.key][1]

\* the bundle file a stored BundleInfo stands for: <modpath>/bundles/<filename>
PathOf(info) == info.modpath \o <<"/", "bundles", "/", info.filename>>

\* C12: every BundleInfo in the registry carries the hash the cache holds for
\* its bundle path (the value the last addBundles call confirmed or stored
\* for that path); no stored BundleInfo is stale relative to the cache.
C12_StoredHashIsCacheHash ==
    \A k \in Keys :
        bundles[k] # 0 =>
            LET info == heap[bundles[k]]
            IN  /\ PathOf(info) \in BundlePaths
                /\ info.crc = getStoredValue(bundleHashes, PathOf(info))
                /\ info.crc = lastHashed[PathOf(info)].crc

FailsAt(m) ==
    LET missing == {i \in 1..Len(Manifest(m)) :
                        bundleFiles[BundlePath(m, Manifest(m)[i].key)] = 0}
    IN  IF missing = {} THEN 0 ELSE Min(missing)

\* C36: when addBundles fails at manifest entry k (the bundle file of entry k
\* is missing), nothing is rolled back: every entry before k is registered
\* with the hash of its file, which the cache holds too, and entry k and the
\* later entries are not registered by the call (registry entry, cache entry
\* and what is known of earlier inserts stay as they were).
C36_FailureKeepsEarlierEntries ==
    [][\A m \in Mods :
        addBundles(m) /\ FailsAt(m) # 0 =>
            \A i \in 1..Len(Manifest(m)) :
                LET e == Manifest(m)[i]
                    p == BundlePath(m, e.key)
                IN  IF i < FailsAt(m)
                    THEN /\ RegistryView'[e.key] =
                              <<[modpath |-> NormalizedModPath(m), filename |-> e.key,
                                 crc |-> Crc(bundleFiles[p]),
                                 dependencies |-> IF e.hasDeps THEN e.dependencyKeys
                                                  ELSE <<>>]>>
                         /\ bundleHashes'[p] = Crc(bundleFiles[p])
                         /\ e.key \notin direct'
                    ELSE /\ RegistryView'[e.key] = RegistryView[e.key]
                         /\ bundleHashes'[p] = bundleHashes[p]
                         /\ lastHashed'[p] = lastHashed[p]
                         /\ (e.key \in direct') = (e.key \in direct)]_vars

\* C36 witness: the file of the second entry is missing and no call has ever
\* registered that entry, while the first entry is registered from the
\* manifest with the hash the cache holds.
C36_Witness ==
    \E m \in Mods :
        /\ bundleFiles[BundlePath(m, "k2")] = 0
        /\ bundles["k2"] = 0
        /\ bundles["k1"] # 0 /\ "k1" \notin direct
        /\ lastHashed[BundlePath(m, "k1")].bytes = bundleFiles[BundlePath(m, "k1")]
        /\ heap[bundles["k1"]].crc = bundleHashes[BundlePath(m, "k1")]
        /\ bundleHashes[BundlePath(m, "k1")] = Crc(bundleFiles[BundlePath(m, "k1")])

\* C32: the registry owns its values: a caller that mutates an object it holds
\* (the BundleInfo it passed to addBundle, or a value it was given) does not
\* change what getBundle and getBundles return, which stays the value that was
\* passed at the most recent insert.
C32_MutatingInsertedObjectLeavesRegistry ==
    [][\A r \in returned, kind \in MutationKinds :
          mutateReturned(r, kind) =>
              /\ RegistryView' = RegistryView
              /\ (RegistryView = inserted => RegistryView' = inserted')]_vars

\* C38: existsAsync never rejects: its promise is fulfilled with true exactly
\* when the queue ran the access check and the check succeeded, and with false
\* for every failure, of the check (ENOENT, EACCES) and of the queue itself
\* (a rejected waitFor promise, an exception thrown by waitFor).
C38_ExistsAsyncNeverRejects ==
    \A i \in 1..Len(probeLog) :
        LET c == probeLog[i]
        IN  /\ c.outcome.state = "fulfilled"
            /\ c.outcome.value \in BOOLEAN
            /\ c.outcome.value = (c.access = "fulfilled")

\* C38 witness: one call settled true for an existing path, another settled
\* false because waitFor itself threw, with the path in place.
C38_Witness ==
    \E i, j \in 1..Len(probeLog) :
        /\ probeLog[i].at = "file" /\ probeLog[i].qs = "runs"
        /\ probeLog[i].outcome = Fulfilled(TRUE)
        /\ probeLog[j].at = "file" /\ probeLog[j].qs = "throws"
        /\ probeLog[j].access = "not run"
        /\ probeLog[j].outcome = Fulfilled(FALSE)

====
